---- MODULE Spec2Model ----
(***************************************************************************)
(* Model of the Butterfly pointer broker (src/app.py): the relational      *)
(* store behind PointerHelper and the handlers PointerHelper.invoke        *)
(* dispatches to.                                                          *)
(*                                                                         *)
(* Reading conventions for src/app.py:                                     *)
(*  - self.db_manager in PointerHelper is the DBManager of the audit       *)
(*    module (the only store the program opens).                           *)
(*  - Named SQL parameters written ": name" are the bind parameters        *)
(*    ":name" of the statement they stand in.                              *)
(*  - Of the two definitions of _handle_invoke_through_connection the      *)
(*    later one (line 964) is the one the class keeps.                     *)
(*  - uuid4-derived identifiers are fresh; a fresh identifier is the next  *)
(*    natural number of its table.  0 stands for an absent parameter.      *)
(***************************************************************************)
EXTENDS Integers, Sequences, FiniteSets, TLC

VARIABLES pointers, relationships, connections, federations, last,
          pc, rowcount, racer, result, run,
          audit_log, access_keys, domains, config, http, report_cache, report

store == <<pointers, relationships, connections, federations>>
race  == <<pc, rowcount, racer, result>>
\* The audit log, the access keys, the domains, the loaded configuration and
\* the exchange the /invoke route answered in the current step.
rest  == <<audit_log, access_keys, domains, config, http, report_cache, report>>
vars  == <<pointers, relationships, connections, federations, last,
           pc, rowcount, racer, result, run,
           audit_log, access_keys, domains, config, http, report_cache, report>>

(* ------------------------------ bounds -------------------------------- *)
MaxPointers == 2
MaxConnections == 2
MaxFederations == 2
NumCallers == 2
\* Table sizes of the access-control specification.
AccessPointers == 1
AccessConnections == 1
AccessFederations == 1
\* Pointers and timestamp readings of the edge specification.
EdgePointers == 2
MaxClock == 4
\* Longest list of accumulated results a substitution is applied to.
MaxResults == 2
\* Pointers created by requests of the circuit specification.
CircuitPointers == 2
\* Pointers of the proximity specification.
ProximityPointers == 3
\* Access keys generated.
MaxKeys == 2
\* Pointers and connections of the proxy specification.
ProxyPointers == 2
ProxyConnections == 1
\* Entries of the audit log.
MaxAudit == 2

(* --------------------------- value domains ---------------------------- *)
NULL == "NULL"
Domains == {"dom_a", "dom_b", "dom_c"}
PermissionSets == {{"read_write"}, {"admin_domain", "read_write"}}
\* An auth_context as token_required builds it, and the empty one a query
\* without auth_context defaults to.
\* key is the access key the context was built from; 0 when it names none.
NoAuth == [key |-> 0, domain_id |-> NULL, permissions |-> {}]
AuthContexts ==
    [key : {0}, domain_id : Domains, permissions : PermissionSets] \cup {NoAuth}
FederationPermissions == {<<"read_pointers">>, <<"read_pointers", "write_pointers">>}
DataReferences == {"", "https://a.test/r", "https://b.test/r"}
\* Coordinates are kept in hundredths; NoCoord is an absent x, y or z.
NoCoord == -1
\* The x, y, z a create_pointer query carries.
CoordInputs ==
    {<<NoCoord, NoCoord, NoCoord>>, <<100, NoCoord, NoCoord>>,
     <<NoCoord, NoCoord, 100>>}
ExternalOutcomes == {"ok", "fail"}
\* A radius is kept in hundredths like the coordinates; NoRadius is an absent one.
NoRadius == NoCoord

(* ------------------------------ queries ------------------------------- *)
BlankQuery ==
    [action |-> "none", auth_context |-> NoAuth, connection_id |-> 0,
     pointer_address |-> 0, federation_id |-> 0, request_key |-> 0,
     target_domain_id |-> NULL, permissions |-> <<>>, data_reference |-> "",
     x |-> NoCoord, y |-> NoCoord, z |-> NoCoord, status |-> NULL,
     allow_writes |-> FALSE, neighbor_address |-> 0, relationship |-> "",
     weight |-> 0, origin_pointer_address |-> 0, radius |-> NoRadius,
     key_to_revoke |-> 0, domain_id |-> NULL, description |-> <<>>,
     tags |-> <<>>, search_term |-> <<>>, search_tags |-> <<>>,
     exclude_tags |-> <<>>, tag_match_mode |-> "ALL"]

NoStats == [total_pointers |-> 0, total_relationships |-> 0]

\* What an administrative read returns: the connections, access keys and
\* federations in its result.
NoDisclosure == [connections |-> {}, access_keys |-> {}, federations |-> {}]

\* A handler's reply: status and message, whether an outbound request was
\* made, and the result payload: of get_neighbors (neighbors), of
\* get_graph_stats (stats), of search_by_proximity (found, the addresses of
\* the pointers listed), of the administrative reads (disclosed), and the
\* text that quotes an exception (details).  sent lists the calls of
\* requests.get the handler made; it is no part of what the caller receives.
Response(q, status, msg, outbound) ==
    [query |-> q, status |-> status, message |-> msg, outbound |-> outbound,
     neighbors |-> {}, stats |-> NoStats, found |-> {},
     disclosed |-> NoDisclosure, details |-> <<>>, sent |-> <<>>]

Error(q, msg) == Response(q, "error", msg, FALSE)
Success(q, msg) == Response(q, "success", msg, FALSE)

IsAdmin(auth_context) == "admin_domain" \in auth_context.permissions

\* The auth_context of an admin key and of a read_write key of domain d.
Admin(d) ==
    [key |-> 0, domain_id |-> d, permissions |-> {"admin_domain", "read_write"}]
Member(d) == [key |-> 0, domain_id |-> d, permissions |-> {"read_write"}]

(* ------------------------------ store --------------------------------- *)
\* uuid4-derived identifier of the next row of a table.
FreshId(table) == Len(table) + 1

Exists(table, id) == id \in DOMAIN table

\* The rows a cursor holds for "SELECT ... FROM connections WHERE id = ?":
\* id is the primary key, so at most one row.
SelectConnection(connection_id) ==
    IF Exists(connections, connection_id)
    THEN <<connections[connection_id]>> ELSE <<>>

\* cursor.fetchone(): the n-th row of the cursor, or None (NoRow) once the
\* cursor is exhausted.
NoRow == [id |-> 0, domain_id |-> NULL, status |-> NULL, allow_writes |-> 0]
Fetchone(cursor, n) == IF n \in DOMAIN cursor THEN cursor[n] ELSE NoRow

(* --------------------------- graph engine ----------------------------- *)
\* Stand-in for int(sha256(s).hexdigest(), 16): a fixed function of the address.
Digest(address) == address * 412345679 + 98765

HashToVector3(address) ==
    LET hash_val == Digest(address)
    IN  [x |-> hash_val % 10000,
         y |-> (hash_val \div 10000) % 10000,
         z |-> (hash_val \div 100000000) % 10000]

\* The weight expression of the bulk INSERT, kept as a term over the deltas.
GyroidScore(dx, dy, dz) == <<"gyroid", dx, dy, dz>>

\* A weight a query carries, in hundredths.
Real(w) == <<"real", w>>

\* datetime.now(timezone.utc).isoformat(): a reading later than every
\* timestamp the pointers table holds.
RECURSIVE LatestModified(_)
LatestModified(n) ==
    IF n = 0 THEN 0
    ELSE IF pointers[n].last_modified > LatestModified(n - 1)
         THEN pointers[n].last_modified ELSE LatestModified(n - 1)

Now == LatestModified(Len(pointers)) + 1

\* Variant: the weight is scored on the new pointer's coordinates, not on
\* the deltas.
GyroidRowsUndelta(address, table) ==
    { [pointer_a_address |-> address, pointer_b_address |-> other,
       relationship |-> "gyroid_related",
       weight |-> GyroidScore(table[address].x, table[address].y,
                              table[address].z)]
      : other \in DOMAIN table \ {address} }

GyroidRows(address, table) ==
    { [pointer_a_address |-> address, pointer_b_address |-> other,
       relationship |-> "gyroid_related",
       weight |-> GyroidScore(table[address].x - table[other].x,
                              table[address].y - table[other].y,
                              table[address].z - table[other].z)]
      : other \in DOMAIN table \ {address} }

\* INSERT INTO relationships: the primary key (a, b) admits no second row.
HasRow(rows, a, b) ==
    \E r \in rows : r.pointer_a_address = a /\ r.pointer_b_address = b

AddPointerToGyroidStructure(address, table) ==
    relationships \cup
        { r \in GyroidRows(address, table) :
            ~HasRow(relationships, r.pointer_a_address, r.pointer_b_address) }

\* Text is a sequence of characters.  json.dumps of a list of str: the
\* items in double quotes, separated by ", ", in brackets.
RECURSIVE JsonItems(_)
JsonItems(tags) ==
    IF tags = <<>> THEN <<>>
    ELSE <<"\"">> \o Head(tags) \o <<"\"">>
            \o (IF Len(tags) = 1 THEN <<>> ELSE <<",", " ">>)
            \o JsonItems(Tail(tags))

JsonDumps(tags) == <<"[">> \o JsonItems(tags) \o <<"]">>

\* Variant: the duplicate pre-check finds nothing.
PointerWithReferenceBlind(data_reference) == {}

PointerWithReference(data_reference) ==
    { a \in DOMAIN pointers : pointers[a].data_reference = data_reference }

NewPointer(q) ==
    LET address == FreshId(pointers)
        hashed == q.x = NoCoord /\ q.y = NoCoord /\ q.z = NoCoord
        h == HashToVector3(address)
    IN  [description |-> q.description,
         data_reference |-> q.data_reference,
         tags |-> JsonDumps(q.tags),
         connection_id |-> q.connection_id,
         \* The INSERT names no credential_pointer_address: NULL.
         credential_pointer_address |-> 0,
         x |-> IF hashed THEN h.x ELSE IF q.x = NoCoord THEN 0 ELSE q.x,
         y |-> IF hashed THEN h.y ELSE IF q.y = NoCoord THEN 0 ELSE q.y,
         z |-> IF hashed THEN h.z ELSE 0,
         last_modified |-> Now]

HandleCreatePointer(q) ==
    IF q.data_reference = ""
    THEN /\ last' = Error(q, "missing")
         /\ UNCHANGED store
    ELSE IF PointerWithReference(q.data_reference) # {}
    THEN /\ last' = Error(q, "exists")
         /\ UNCHANGED store
    ELSE /\ pointers' = Append(pointers, NewPointer(q))
         /\ relationships' =
                AddPointerToGyroidStructure(FreshId(pointers), pointers')
         /\ last' = Success(q, "created")
         /\ UNCHANGED <<connections, federations>>

\* create_pointer without description or tags.
CreatePointer(data_reference, x, y, z, connection_id) ==
    HandleCreatePointer([BlankQuery EXCEPT !.action = "create_pointer",
                                           !.data_reference = data_reference,
                                           !.x = x, !.y = y, !.z = z,
                                           !.connection_id = connection_id])

\* Labels and weights an add_neighbor query carries; "" and 100 are the
\* defaults of an absent relationship and weight.
EdgeLabels == {"", "friend"}
EdgeWeights == {100, 250}

\* Variant: the existence check passes whatever the table holds.
EndpointCountBlind(pointer_address, neighbor_address) == 2

\* SELECT COUNT(*) FROM pointers WHERE address IN (?, ?)
EndpointCount(pointer_address, neighbor_address) ==
    Cardinality({ a \in DOMAIN pointers :
                    a \in {pointer_address, neighbor_address} })

EdgeRow(a, b, label, weight) ==
    [pointer_a_address |-> a, pointer_b_address |-> b,
     relationship |-> label, weight |-> Real(weight)]

\* Variant: both rows are written whatever the table holds.
InsertEdgeBlind(a, b, label, weight) ==
    relationships \cup {EdgeRow(a, b, label, weight),
                        EdgeRow(b, a, label, weight)}

\* The two INSERTs inside one try block: an IntegrityError raised by the
\* first skips the second, one raised by the second keeps the first.
InsertEdge(a, b, label, weight) ==
    IF HasRow(relationships, a, b)
    THEN relationships
    ELSE IF HasRow(relationships, b, a)
    THEN relationships \cup {EdgeRow(a, b, label, weight)}
    ELSE relationships \cup {EdgeRow(a, b, label, weight),
                             EdgeRow(b, a, label, weight)}

\* The reply's "pointer" comes from the get_pointer action, a read.
\* Variant: the UPDATE carries no WHERE clause.
TouchEndpointsAll(pointer_address, neighbor_address) ==
    [a \in DOMAIN pointers |-> [pointers[a] EXCEPT !.last_modified = Now]]

\* UPDATE pointers SET last_modified = ? WHERE address = ?, once per endpoint.
TouchEndpoints(pointer_address, neighbor_address) ==
    [a \in DOMAIN pointers |->
        IF a \in {pointer_address, neighbor_address}
        THEN [pointers[a] EXCEPT !.last_modified = Now]
        ELSE pointers[a]]

AddNeighbor(pointer_address, neighbor_address, label, weight) ==
    LET q == [BlankQuery EXCEPT !.action = "add_neighbor",
                                !.pointer_address = pointer_address,
                                !.neighbor_address = neighbor_address,
                                !.relationship = label,
                                !.weight = weight]
    IN  IF pointer_address = 0 \/ neighbor_address = 0
        THEN /\ last' = Error(q, "missing")
             /\ UNCHANGED store
        ELSE IF EndpointCount(pointer_address, neighbor_address) # 2
        THEN /\ last' = Error(q, "not_found")
             /\ UNCHANGED store
        ELSE /\ relationships' =
                    InsertEdge(pointer_address, neighbor_address, label, weight)
             /\ pointers' = TouchEndpoints(pointer_address, neighbor_address)
             /\ last' = Success(q, "added")
             /\ UNCHANGED <<connections, federations>>

\* SELECT pointer_b_address, relationship, weight FROM relationships
\* WHERE pointer_a_address = ?
NeighborsIn(rows, pointer_address) ==
    { [address |-> r.pointer_b_address, relationship |-> r.relationship,
       weight |-> r.weight]
      : r \in { t \in rows : t.pointer_a_address = pointer_address } }

Neighbors(pointer_address) == NeighborsIn(relationships, pointer_address)

GetNeighbors(pointer_address) ==
    LET q == [BlankQuery EXCEPT !.action = "get_neighbors",
                                !.pointer_address = pointer_address]
    IN  /\ UNCHANGED store
        /\ last' = IF pointer_address = 0
                   THEN Error(q, "missing")
                   ELSE [Success(q, "neighbors") EXCEPT
                            !.neighbors = Neighbors(pointer_address)]

GraphStats ==
    [total_pointers |-> Len(pointers),
     total_relationships |-> Cardinality(relationships) \div 2]

GetGraphStats ==
    LET q == [BlankQuery EXCEPT !.action = "get_graph_stats"]
    IN  /\ UNCHANGED store
        /\ last' = [Success(q, "stats") EXCEPT !.stats = GraphStats]

\* The WHERE clause of the proximity SELECT: squared distance to (ox, oy, oz)
\* at most radius_squared, the origin itself left out.
WithinRadius(origin_pointer_address, radius_squared) ==
    LET o == pointers[origin_pointer_address]
    IN  { a \in DOMAIN pointers :
            /\ (pointers[a].x - o.x) * (pointers[a].x - o.x)
                 + (pointers[a].y - o.y) * (pointers[a].y - o.y)
                 + (pointers[a].z - o.z) * (pointers[a].z - o.z)
                    <= radius_squared
            /\ a # origin_pointer_address }

\* Variant: the origin is not left out of its own neighbourhood.
SearchRowsWithOrigin(origin_pointer_address, radius) ==
    WithinRadius(origin_pointer_address, radius * radius)
        \cup {origin_pointer_address}

SearchRows(origin_pointer_address, radius) ==
    WithinRadius(origin_pointer_address, radius * radius)

SearchByProximity(origin_pointer_address, radius) ==
    LET q == [BlankQuery EXCEPT !.action = "search_by_proximity",
                                !.origin_pointer_address = origin_pointer_address,
                                !.radius = radius]
    IN  /\ UNCHANGED store
        /\ last' =
            IF origin_pointer_address = 0 \/ radius = NoRadius
            THEN Error(q, "missing")
            ELSE IF ~Exists(pointers, origin_pointer_address)
            THEN Error(q, "not_found")
            ELSE [Success(q, "found") EXCEPT
                    !.found = SearchRows(origin_pointer_address, radius)]

(* ------------------------------ search -------------------------------- *)
\* SQLite's LIKE compares ASCII letters without regard to case.
LowerChar(c) ==
    CASE c = "A" -> "a" [] c = "B" -> "b" [] c = "R" -> "r" [] OTHER -> c

\* text LIKE pattern: "%" stands for any run of characters, "_" for one.
RECURSIVE Like(_, _)
Like(text, pattern) ==
    IF pattern = <<>> THEN text = <<>>
    ELSE IF Head(pattern) = "%"
    THEN Like(text, Tail(pattern))
            \/ (text # <<>> /\ Like(Tail(text), pattern))
    ELSE /\ text # <<>>
         /\ Head(pattern) = "_" \/ LowerChar(Head(text)) = LowerChar(Head(pattern))
         /\ Like(Tail(text), Tail(pattern))

\* f"%{search_term}%"
TermPattern(search_term) == <<"%">> \o search_term \o <<"%">>

\* f'%"{tag}"%'
TagPattern(tag) == <<"%", "\"">> \o tag \o <<"\"", "%">>

\* str.upper() of the tag_match_mode a query carries.
Upper(mode) ==
    CASE mode = "any" -> "ANY" [] mode = "all" -> "ALL" [] mode = "some" -> "SOME"
      [] OTHER -> mode

\* The else branch of the mode test sits inside "if search_tags:".
ModeRejected(search_tags, tag_match_mode) ==
    search_tags # <<>> /\ tag_match_mode \notin {"ALL", "ANY"}

\* The WHERE clauses, joined with AND, applied to the row at address a.
SearchWhere(a, search_term, search_tags, exclude_tags, tag_match_mode) ==
    /\ search_term # <<>> =>
            Like(pointers[a].description, TermPattern(search_term))
    /\ (search_tags # <<>> /\ tag_match_mode = "ALL") =>
            \A i \in DOMAIN search_tags :
                Like(pointers[a].tags, TagPattern(search_tags[i]))
    /\ (search_tags # <<>> /\ tag_match_mode = "ANY") =>
            \E i \in DOMAIN search_tags :
                Like(pointers[a].tags, TagPattern(search_tags[i]))
    /\ \A i \in DOMAIN exclude_tags :
            ~Like(pointers[a].tags, TagPattern(exclude_tags[i]))

\* An absent or empty search_term, search_tags or exclude_tags is <<>>.
SearchPointers(search_term, search_tags, exclude_tags, mode_given) ==
    LET q == [BlankQuery EXCEPT !.action = "search_pointers",
                                !.search_term = search_term,
                                !.search_tags = search_tags,
                                !.exclude_tags = exclude_tags,
                                !.tag_match_mode = mode_given]
        tag_match_mode == Upper(mode_given)
    IN  /\ UNCHANGED store
        /\ last' =
            IF search_term = <<>> /\ search_tags = <<>>
            THEN Error(q, "missing")
            ELSE IF ModeRejected(search_tags, tag_match_mode)
            THEN Error(q, "bad_mode")
            ELSE [Success(q, "found") EXCEPT
                    !.found = { a \in DOMAIN pointers :
                                  SearchWhere(a, search_term, search_tags,
                                              exclude_tags, tag_match_mode) }]

\* json.loads of a serialized list of str: the texts between the quotes.
RECURSIVE Quoted(_, _, _)
Quoted(text, inside, item) ==
    IF text = <<>> THEN {}
    ELSE IF Head(text) = "\""
    THEN IF inside THEN {item} \cup Quoted(Tail(text), FALSE, <<>>)
         ELSE Quoted(Tail(text), TRUE, <<>>)
    ELSE Quoted(Tail(text), inside, IF inside THEN Append(item, Head(text)) ELSE <<>>)

JsonLoads(text) == Quoted(text, FALSE, <<>>)

(* --------------------------- federation ------------------------------- *)
\* Variant: every request gets the same key.
NewRequestKeyFixed == FreshId(<<>>)

\* uuid4-derived request_key of the next federation row.
NewRequestKey == FreshId(federations)

\* PointerHelper._is_federated is called by the access checks and defined
\* nowhere in the source; this is the rule the specification gives for it.
IsFederated(domain_a, domain_b) ==
    \E i \in DOMAIN federations :
        /\ federations[i].status = "accepted"
        /\ \/ /\ federations[i].source_domain_id = domain_a
              /\ federations[i].target_domain_id = domain_b
           \/ /\ federations[i].source_domain_id = domain_b
              /\ federations[i].target_domain_id = domain_a

InitiateFederation(auth_context, target_domain_id, permissions) ==
    LET q == [BlankQuery EXCEPT !.action = "initiate_federation",
                                !.auth_context = auth_context,
                                !.target_domain_id = target_domain_id,
                                !.permissions = permissions]
        source_domain_id == auth_context.domain_id
    IN  IF ~IsAdmin(auth_context)
        THEN /\ last' = Error(q, "denied")
             /\ UNCHANGED store
        ELSE IF target_domain_id = NULL
        THEN /\ last' = Error(q, "missing")
             /\ UNCHANGED store
        ELSE IF source_domain_id = target_domain_id
        THEN /\ last' = Error(q, "self")
             /\ UNCHANGED store
        ELSE /\ federations' = Append(federations,
                    [id |-> FreshId(federations),
                     source_domain_id |-> source_domain_id,
                     target_domain_id |-> target_domain_id,
                     status |-> "pending",
                     permissions |-> permissions,
                     request_key |-> NewRequestKey])
             /\ last' = Success([q EXCEPT !.request_key = NewRequestKey],
                                "initiated")
             /\ UNCHANGED <<pointers, relationships, connections>>

\* Variant: the UPDATE without "AND status = 'pending'".
AcceptMatchesAnyStatus(request_key, target_domain_id) ==
    { i \in DOMAIN federations :
        /\ federations[i].request_key = request_key
        /\ federations[i].target_domain_id = target_domain_id }

\* Variant: the UPDATE without "AND target_domain_id = ?".
AcceptMatchesAnyTarget(request_key, target_domain_id) ==
    { i \in DOMAIN federations :
        /\ federations[i].request_key = request_key
        /\ federations[i].status = "pending" }

\* The rows "UPDATE federations SET status = 'accepted' ... WHERE request_key = ?
\* AND target_domain_id = ? AND status = 'pending'" changes.
AcceptMatches(request_key, target_domain_id) ==
    { i \in DOMAIN federations :
        /\ federations[i].request_key = request_key
        /\ federations[i].target_domain_id = target_domain_id
        /\ federations[i].status = "pending" }

AcceptUpdate(request_key, target_domain_id) ==
    [i \in DOMAIN federations |->
        IF i \in AcceptMatches(request_key, target_domain_id)
        THEN [federations[i] EXCEPT !.status = "accepted"]
        ELSE federations[i]]

AcceptFederation(auth_context, request_key) ==
    LET q == [BlankQuery EXCEPT !.action = "accept_federation",
                                !.auth_context = auth_context,
                                !.request_key = request_key]
        target_domain_id == auth_context.domain_id
    IN  IF ~IsAdmin(auth_context)
        THEN /\ last' = Error(q, "denied")
             /\ UNCHANGED store
        ELSE IF request_key = 0
        THEN /\ last' = Error(q, "missing")
             /\ UNCHANGED store
        ELSE /\ federations' = AcceptUpdate(request_key, target_domain_id)
             /\ last' = IF Cardinality(AcceptMatches(request_key, target_domain_id)) = 0
                        THEN Error(q, "invalid")
                        ELSE Success(q, "accepted")
             /\ UNCHANGED <<pointers, relationships, connections>>

\* Variant: every domain counts as involved in the federation.
RevokeParticipantsAny(federation_id) == Domains

\* (fed_row['source_domain_id'], fed_row['target_domain_id'])
RevokeParticipants(federation_id) ==
    {federations[federation_id].source_domain_id,
     federations[federation_id].target_domain_id}

\* "UPDATE federations SET status = 'revoked' WHERE id = ?"
RevokeUpdate(federation_id) ==
    [i \in DOMAIN federations |->
        IF federations[i].id = federation_id
        THEN [federations[i] EXCEPT !.status = "revoked"]
        ELSE federations[i]]

RevokeFederation(auth_context, federation_id) ==
    LET q == [BlankQuery EXCEPT !.action = "revoke_federation",
                                !.auth_context = auth_context,
                                !.federation_id = federation_id]
        admin_domain_id == auth_context.domain_id
    IN  IF ~IsAdmin(auth_context)
        THEN /\ last' = Error(q, "denied")
             /\ UNCHANGED store
        ELSE IF federation_id = 0
        THEN /\ last' = Error(q, "missing")
             /\ UNCHANGED store
        ELSE IF ~Exists(federations, federation_id)
        THEN /\ last' = Error(q, "not_found")
             /\ UNCHANGED store
        ELSE IF admin_domain_id \notin RevokeParticipants(federation_id)
        THEN /\ last' = Error(q, "denied")
             /\ UNCHANGED store
        ELSE /\ federations' = RevokeUpdate(federation_id)
             /\ last' = Success(q, "revoked")
             /\ UNCHANGED <<pointers, relationships, connections>>

(* --------------------------- connections ------------------------------ *)
CreateConnection(name_given, domain_id, allow_writes) ==
    LET q == [BlankQuery EXCEPT !.action = "create_connection",
                                !.target_domain_id = domain_id,
                                !.allow_writes = allow_writes]
    IN  IF ~name_given \/ domain_id = NULL
        THEN /\ last' = Error(q, "missing")
             /\ UNCHANGED store
        ELSE /\ connections' = Append(connections,
                    [id |-> FreshId(connections),
                     domain_id |-> domain_id,
                     status |-> "active",
                     allow_writes |-> IF allow_writes THEN 1 ELSE 0])
             /\ last' = Success([q EXCEPT !.connection_id = FreshId(connections)],
                                "created")
             /\ UNCHANGED <<pointers, relationships, federations>>

SetConnectionStatus(auth_context, connection_id, status) ==
    LET q == [BlankQuery EXCEPT !.action = "set_connection_status",
                                !.auth_context = auth_context,
                                !.connection_id = connection_id,
                                !.status = status]
        conn_row == Fetchone(SelectConnection(connection_id), 1)
    IN  IF ~IsAdmin(auth_context)
        THEN /\ last' = Error(q, "denied")
             /\ UNCHANGED store
        ELSE IF connection_id = 0 \/ status = NULL
        THEN /\ last' = Error(q, "missing")
             /\ UNCHANGED store
        ELSE IF status \notin {"active", "disabled"}
        THEN /\ last' = Error(q, "bad_status")
             /\ UNCHANGED store
        ELSE IF conn_row = NoRow \/ conn_row.domain_id # auth_context.domain_id
        THEN /\ last' = Error(q, "denied")
             /\ UNCHANGED store
        ELSE /\ connections' = [connections EXCEPT ![connection_id].status = status]
             /\ last' = Success(q, "status_set")
             /\ UNCHANGED <<pointers, relationships, federations>>

(* -------------------------- access control ---------------------------- *)
\* Variant: any existing connection counts as owned.
IsOwnerAnyDomain(conn_domain_row, requesting_domain_id) ==
    conn_domain_row # NoRow

\* is_owner or is_federated, computed from the row the handler fetched.
IsOwner(conn_domain_row, requesting_domain_id) ==
    conn_domain_row # NoRow /\ conn_domain_row.domain_id = requesting_domain_id

IsFederatedRow(conn_domain_row, requesting_domain_id) ==
    conn_domain_row # NoRow
        /\ IsFederated(requesting_domain_id, conn_domain_row.domain_id)

Allowed(conn_domain_row, requesting_domain_id) ==
    IsOwner(conn_domain_row, requesting_domain_id)
        \/ IsFederatedRow(conn_domain_row, requesting_domain_id)

\* Variant: conn_domain_row is the row the first fetchone() returned.
AssignConnDomainRowFirst(connection_id) ==
    Fetchone(SelectConnection(connection_id), 1)

\* The handler reads conn_row with one fetchone() and conn_domain_row with a
\* second fetchone() on the same cursor.
AssignConnDomainRow(connection_id) == Fetchone(SelectConnection(connection_id), 2)

AssignPointerToConnection(auth_context, pointer_address, connection_id) ==
    LET q == [BlankQuery EXCEPT !.action = "assign_pointer_to_connection",
                                !.auth_context = auth_context,
                                !.pointer_address = pointer_address,
                                !.connection_id = connection_id]
        conn_row == Fetchone(SelectConnection(connection_id), 1)
        conn_domain_row == AssignConnDomainRow(connection_id)
    IN  IF pointer_address = 0 \/ connection_id = 0 \/ auth_context = NoAuth
        THEN /\ last' = Error(q, "missing")
             /\ UNCHANGED store
        ELSE IF conn_row # NoRow /\ conn_row.status = "disabled"
        THEN /\ last' = Error(q, "disabled")
             /\ UNCHANGED store
        ELSE IF ~Allowed(conn_domain_row, auth_context.domain_id)
        THEN /\ last' = Error(q, "denied")
             /\ UNCHANGED store
        ELSE /\ pointers' =
                    [a \in DOMAIN pointers |->
                        IF a = pointer_address
                        THEN [pointers[a] EXCEPT !.connection_id = connection_id]
                        ELSE pointers[a]]
             /\ last' = IF Exists(pointers, pointer_address)
                        THEN Success(q, "assigned")
                        ELSE Error(q, "not_found")
             /\ UNCHANGED <<relationships, connections, federations>>

\* The checks invoke_through_connection makes before it resolves the pointer's
\* data_reference: the error it returns, or "none".
InvokeRefusal(auth_context, connection_id, pointer_address) ==
    LET conn_domain_row == Fetchone(SelectConnection(connection_id), 1)
    IN  IF connection_id = 0 \/ pointer_address = 0 \/ auth_context = NoAuth
        THEN "missing"
        ELSE IF ~Allowed(conn_domain_row, auth_context.domain_id)
        THEN "denied"
        ELSE IF ~Exists(pointers, pointer_address)
        THEN "not_found"
        ELSE IF pointers[pointer_address].connection_id # connection_id
        THEN "wrong_connection"
        ELSE "none"

\* A credential blob is the Fernet token of a JSON object; a str is the
\* sequence of its pieces.  Decrypt gives what EncryptionModule.decrypt and
\* json.loads make of the data_reference of a credential pointer: the keys
\* of the object with its header name and token value, or the exception
\* raised (the text of cryptography's InvalidToken is empty).
Credentials(keys, header, token) ==
    [raises |-> FALSE, keys |-> keys, header |-> header, token |-> token]
Decrypt(data_reference) ==
    CASE data_reference = "enc:s1" ->
            Credentials({"header", "token"}, "Authorization", <<"Bearer ", "s1">>)
      [] data_reference = "enc:s2" ->
            Credentials({"header", "token"}, "Authorization", <<"Bearer ", "s2">>)
      [] data_reference = "enc:s1\n" ->
            Credentials({"header", "token"}, "Authorization",
                        <<"Bearer ", "s1", "\n">>)
      [] data_reference = "enc:s2\n" ->
            Credentials({"header", "token"}, "Authorization",
                        <<"Bearer ", "s2", "\n">>)
      [] data_reference = "enc:token-only:s1" ->
            Credentials({"token"}, "", <<"Bearer ", "s1">>)
      [] data_reference = "enc:token-only:s2" ->
            Credentials({"token"}, "", <<"Bearer ", "s2">>)
      [] OTHER -> [raises |-> TRUE, keys |-> {}, header |-> "", token |-> <<>>]

\* A header value the HTTP client accepts: no line break in it.
LegalHeaderValue(value) == \A i \in DOMAIN value : value[i] # "\n"

\* requests.get(data_reference_str, headers=headers, timeout=10),
\* raise_for_status() and json(): the exception raised, with its text, or
\* none.  A header value with a line break is refused before anything is
\* sent, by an exception whose text quotes the value; otherwise external is
\* the outcome of the exchange with the named server.
RequestsGet(data_reference_str, headers, external) ==
    IF headers # <<>> /\ ~LegalHeaderValue(headers[1].value)
    THEN [raises |-> TRUE,
          text |-> <<"Invalid header value ">> \o headers[1].value]
    ELSE IF external = "ok"
    THEN [raises |-> FALSE, text |-> <<>>]
    ELSE [raises |-> TRUE, text |-> <<external>>]

\* Variant: a failed outbound call is answered with an error.
UpstreamFailureAsError(q, data_reference_str, text) ==
    Response(q, "error", "upstream_failed", TRUE)

\* The except branch of the outbound call: the interpretation names the
\* pointer, the details quote data_reference_str and str(e).
UpstreamFailure(q, data_reference_str, text) ==
    [Response(q, "interpretation_rendered", "upstream_failed", TRUE)
        EXCEPT !.details = <<data_reference_str>> \o text]

\* Step 4: one call of requests.get inside the try.
Outbound(q, data_reference_str, headers, external) ==
    LET got == RequestsGet(data_reference_str, headers, external)
        call == [url |-> data_reference_str, headers |-> headers,
                 external |-> external]
    IN  [ (IF got.raises
           THEN UpstreamFailure(q, data_reference_str, got.text)
           ELSE Response(q, "success", "proxied", TRUE))
          EXCEPT !.sent = <<call>> ]

\* Steps 2 to 4.  linked: the pointer has a credential_pointer_address;
\* found: that address has a row; credential_reference: its data_reference.
Proxy(q, data_reference_str, linked, found, credential_reference, external) ==
    LET credentials == Decrypt(credential_reference)
    IN  IF ~linked
        THEN Outbound(q, data_reference_str, <<>>, external)
        ELSE IF ~found
        THEN Error(q, "credential_not_found")
        ELSE IF credentials.raises
        THEN Error(q, "decrypt_failed")
        ELSE IF ~({"header", "token"} \subseteq credentials.keys)
        THEN Error(q, "malformed_credential")
        ELSE Outbound(q, data_reference_str,
                      <<[name |-> credentials.header,
                         value |-> credentials.token]>>, external)

\* external is the outcome of requests.get on the pointer's data_reference.
\* No handler writes credential_pointer_address: a pointer created through
\* invoke has none, and the link is made in the database by means outside
\* the handlers.  The data references drawn are external URLs.
InvokeThroughConnection(auth_context, connection_id, pointer_address, external) ==
    LET q == [BlankQuery EXCEPT !.action = "invoke_through_connection",
                                !.auth_context = auth_context,
                                !.pointer_address = pointer_address,
                                !.connection_id = connection_id]
        refusal == InvokeRefusal(auth_context, connection_id, pointer_address)
        row == pointers[pointer_address]
        cred_ptr_address == row.credential_pointer_address
    IN  /\ UNCHANGED store
        /\ last' =
            IF refusal # "none"
            THEN Error(q, refusal)
            ELSE Proxy(q, row.data_reference, cred_ptr_address # 0,
                       Exists(pointers, cred_ptr_address),
                       IF Exists(pointers, cred_ptr_address)
                       THEN pointers[cred_ptr_address].data_reference ELSE "",
                       external)

GetPointersForConnection(auth_context, connection_id) ==
    LET q == [BlankQuery EXCEPT !.action = "get_pointers_for_connection",
                                !.auth_context = auth_context,
                                !.connection_id = connection_id]
        conn_domain_row == Fetchone(SelectConnection(connection_id), 1)
    IN  /\ UNCHANGED store
        /\ last' =
            IF connection_id = 0 \/ auth_context = NoAuth
            THEN Error(q, "missing")
            ELSE IF ~Allowed(conn_domain_row, auth_context.domain_id)
            THEN Error(q, "denied")
            ELSE Success(q, "listed")

(* ----------------------- circuit substitution ------------------------ *)
\* A str is the sequence of its characters; a run of characters that holds
\* no delimiter may be written as one token.  A value of a step result is a
\* node: a str, a number, a dict (keys and kids in step) or a list (kids).
Str(text) == [t |-> "str", text |-> text, keys |-> <<>>, kids |-> <<>>]
Dict(keys, kids) == [t |-> "dict", text |-> <<>>, keys |-> keys, kids |-> kids]
List(kids) == [t |-> "list", text |-> <<>>, keys |-> <<>>, kids |-> kids]
None == [t |-> "none", text |-> <<>>, keys |-> <<>>, kids |-> <<>>]

\* "ptr_" followed by the digits of the address.
AddressText(address) ==
    <<"p", "t", "r", "_">> \o
        << CASE address = 1 -> "1" [] address = 2 -> "2" [] address = 3 -> "3"
             [] address = 4 -> "4" [] address = 5 -> "5" [] address = 6 -> "6"
             [] address = 7 -> "7" [] address = 8 -> "8" [] OTHER -> "9" >>

\* int(part): the parts int() accepts, and their value.
NumericTokens == {"0", "1", "9"}
IsInt(part) == Len(part) = 1 /\ part[1] \in NumericTokens
IntOf(part) == CASE part[1] = "0" -> 0 [] part[1] = "1" -> 1 [] OTHER -> 9

\* value.find(c): position of the first c (positions from 1), 0 when absent.
RECURSIVE Find(_, _, _)
Find(value, c, from) ==
    IF from > Len(value) THEN 0
    ELSE IF value[from] = c THEN from ELSE Find(value, c, from + 1)

\* value[value.find('{') + 1 : value.find('}')]
Expression(value) ==
    LET i == Find(value, "{", 1)
        j == Find(value, "}", 1)
    IN  IF j > i + 1 THEN SubSeq(value, i + 1, j - 1) ELSE <<>>

\* expression.split('.')
RECURSIVE Split(_)
Split(expression) ==
    LET d == Find(expression, ".", 1)
    IN  IF d = 0 THEN <<expression>>
        ELSE <<SubSeq(expression, 1, d - 1)>>
                \o Split(SubSeq(expression, d + 1, Len(expression)))

\* part.replace('[', '').replace(']', '').replace('\'', '')
Strip(part) == SelectSeq(part, LAMBDA c : c \notin {"[", "]", "'"})

Value(node) == [kind |-> "value", node |-> node]
Nothing == [kind |-> "none", node |-> None]
Raised == [kind |-> "raise", node |-> None]

\* One turn of the loop of _evaluate_expression: value[int(part)], or
\* value.get(part) when int(part) raises ValueError.  IndexError, KeyError
\* and TypeError give None; the AttributeError of .get on a value that is
\* not a dict is caught nowhere.
Lookup(value, part) ==
    IF IsInt(part)
    THEN LET index == IntOf(part)
         IN  CASE value.t = "list" ->
                    IF index < Len(value.kids)
                    THEN Value(value.kids[index + 1]) ELSE Nothing
               [] value.t = "str" ->
                    IF index < Len(value.text)
                    THEN Value(Str(<<value.text[index + 1]>>)) ELSE Nothing
               [] OTHER -> Nothing
    ELSE IF value.t # "dict" THEN Raised
    ELSE LET hits == { k \in DOMAIN value.keys : <<value.keys[k]>> = part }
         IN  IF hits = {} THEN Nothing
             ELSE Value(value.kids[CHOOSE k \in hits : TRUE])

RECURSIVE Walk(_, _)
Walk(value, parts) ==
    IF parts = <<>> THEN Value(value)
    ELSE LET next == Lookup(value, Strip(Head(parts)))
         IN  IF next.kind # "value" \/ next.node.t = "none"
             THEN [next EXCEPT !.kind = IF @ = "raise" THEN @ ELSE "none"]
             ELSE Walk(next.node, Tail(parts))

EvaluateExpression(expression, results) ==
    Walk(List(results), Split(expression))

\* str(evaluated_value)
RECURSIVE Repr(_)
RECURSIVE ReprItems(_, _)
Repr(node) ==
    CASE node.t = "str" -> <<"'">> \o node.text \o <<"'">>
      [] node.t = "dict" -> <<"{">> \o ReprItems(node, 1) \o <<"}">>
      [] node.t = "list" -> <<"[">> \o ReprItems(node, 1) \o <<"]">>
      [] OTHER -> <<"None">>
ReprItems(node, k) ==
    IF k > Len(node.kids) THEN <<>>
    ELSE (IF k > 1 THEN <<",", " ">> ELSE <<>>)
            \o (IF node.t = "dict"
                THEN <<"'", node.keys[k], "'", ":", " ">> ELSE <<>>)
            \o Repr(node.kids[k]) \o ReprItems(node, k + 1)

StrOf(node) == IF node.t = "str" THEN node.text ELSE Repr(node)

\* The text "{" words "}".
Placeholder(words) == <<"{">> \o words \o <<"}">>

IsPlaceholder(value) == Find(value, "{", 1) # 0 /\ Find(value, "}", 1) # 0

\* The body of the loop of _substitute_values for one parameter.
SubstituteValue(value, results) ==
    IF ~IsPlaceholder(value) THEN [kind |-> "value", text |-> value]
    ELSE LET evaluated_value == EvaluateExpression(Expression(value), results)
         IN  CASE evaluated_value.kind = "raise" ->
                    [kind |-> "raise", text |-> value]
               [] evaluated_value.kind = "value" ->
                    [kind |-> "value", text |-> StrOf(evaluated_value.node)]
               [] OTHER -> [kind |-> "value", text |-> value]

\* _substitute_values: the substituted action, or the exception it raises.
SubstituteValues(action, results) ==
    LET each == [key \in DOMAIN action |-> SubstituteValue(action[key], results)]
    IN  [raised |-> \E key \in DOMAIN action : each[key].kind = "raise",
         action |-> [key \in DOMAIN action |-> each[key].text]]

NoRun == [phase |-> "none"]

\* One call of _substitute_values on the action and results the run holds.
ApplySubstitute ==
    /\ run.phase = "input"
    /\ run' = [run EXCEPT
                  !.phase = "output",
                  !.out = SubstituteValues(run.action, run.results)]
    /\ UNCHANGED <<store, last, race>>

(* ------------------------- circuit interpreter ------------------------ *)
\* The names self.actions maps to a handler.
Actions ==
    {"create_pointer", "get_pointer", "add_neighbor", "get_neighbors",
     "initiate_federation", "accept_federation", "revoke_federation",
     "get_federation_status", "create_domain", "generate_access_key",
     "get_domain_details", "revoke_access_key", "set_connection_status",
     "create_connection", "assign_pointer_to_connection",
     "invoke_through_connection", "get_pointers_for_connection",
     "search_pointers", "search_by_proximity", "get_graph_stats",
     "get_admin_overview", "get_graph_dot", "create_circuit",
     "get_pointer_summary", "execute_creation_model"}

\* One action of a circuit definition.  An absent key and an empty str are
\* alike to every handler, so each step carries every key.
Step(action, data_reference, pointer_address, neighbor_address) ==
    [action |-> action, data_reference |-> data_reference,
     pointer_address |-> pointer_address,
     neighbor_address |-> neighbor_address,
     connection_id |-> <<>>, status |-> <<>>, auth_context |-> <<>>]

NewPointerAddress == Placeholder(<<"0", ".", "pointer", ".", "address">>)
CreateB == Step(<<"create_pointer">>, <<"https://b.test/r">>, <<>>, <<>>)
NeighborsOfNew == Step(<<"get_neighbors">>, <<>>, NewPointerAddress, <<>>)

\* A set_connection_status step on the first connection.  The auth_context a
\* stored step carries is a dict, which _substitute_values copies as it is;
\* it is written as one token that names the dict.
AdminOfA == <<"admin_of_dom_a">>
DisableAs(auth_token) ==
    [Step(<<"set_connection_status">>, <<>>, <<>>, <<>>) EXCEPT
        !.connection_id = <<"1">>, !.status = <<"disabled">>,
        !.auth_context = auth_token]

\* The circuit definitions stored behind "internal_circuit::<json>"; the
\* last reference carries text json.loads rejects.
CircuitReferences ==
    {"internal_circuit::chain", "internal_circuit::duplicate",
     "internal_circuit::unknown", "internal_circuit::no_action",
     "internal_circuit::results_path", "internal_circuit::link",
     "internal_circuit::unresolved", "internal_circuit::disable",
     "internal_circuit::disable_as_admin", "internal_circuit::oops"}

\* json.loads(data_reference.split('::', 1)[1])
CircuitDefinition(data_reference) ==
    CASE data_reference = "internal_circuit::chain" ->
            <<CreateB, NeighborsOfNew>>
      [] data_reference = "internal_circuit::duplicate" ->
            <<CreateB, CreateB, NeighborsOfNew>>
      [] data_reference = "internal_circuit::unknown" ->
            <<Step(<<"bogus">>, <<>>, <<>>, <<>>), CreateB>>
      [] data_reference = "internal_circuit::no_action" ->
            <<CreateB, Step(<<>>, <<>>, NewPointerAddress, <<>>), NeighborsOfNew>>
      [] data_reference = "internal_circuit::results_path" ->
            <<CreateB,
              Step(<<"get_neighbors">>, <<>>,
                   Placeholder(<<"results", ".", "0", ".", "pointer", ".",
                                 "address">>), <<>>),
              NeighborsOfNew>>
      [] data_reference = "internal_circuit::link" ->
            <<CreateB,
              Step(<<"add_neighbor">>, <<>>, NewPointerAddress, AddressText(1)),
              NeighborsOfNew>>
      [] data_reference = "internal_circuit::unresolved" ->
            <<Step(<<"get_neighbors">>, <<>>,
                   Placeholder(<<"9", ".", "x">>), <<>>)>>
      [] data_reference = "internal_circuit::disable" ->
            <<DisableAs(<<>>)>>
      [] data_reference = "internal_circuit::disable_as_admin" ->
            <<DisableAs(AdminOfA)>>
      [] OTHER -> <<>>

\* data_reference_str.startswith('internal_circuit::')
IsCircuit(data_reference) == data_reference \in CircuitReferences
ParsesAsJson(data_reference) == data_reference # "internal_circuit::oops"

\* The address no pointer has: a str that is not the address of a row.
Dangling == -1

\* The parameters of a substituted step as the handlers read them.  The
\* definitions above put placeholders in addresses only.
ActionName(text) == IF Len(text) = 1 THEN text[1] ELSE ""
DataReferenceOf(text) == IF Len(text) = 1 THEN text[1] ELSE ""
AddressOf(text) ==
    IF text = <<>> THEN 0
    ELSE IF \E a \in 1..9 : AddressText(a) = text
    THEN CHOOSE a \in 1..9 : AddressText(a) = text
    ELSE Dangling

ConnectionOf(text) == IF text = <<"1">> THEN 1 ELSE 0
StatusOf(text) == IF Len(text) = 1 THEN text[1] ELSE NULL

\* substituted_action.get("auth_context"): the dict the stored step carries,
\* or none; the auth_context of the invoking query is not handed on.
StepAuthContext(action) ==
    IF action.auth_context = AdminOfA THEN Admin("dom_a") ELSE NoAuth

RECURSIVE SortedAddresses(_)
SortedAddresses(addresses) ==
    IF addresses = {} THEN <<>>
    ELSE LET least == CHOOSE a \in addresses : \A b \in addresses : a <= b
         IN  <<least>> \o SortedAddresses(addresses \ {least})

\* result.get("result") of a handler's reply, given the pointers table the
\* handler left: the address and data_reference of a created pointer, the
\* addresses of the neighbors listed, the message of add_neighbor.
ResultPayload(reply, table) ==
    CASE reply.query.action = "create_pointer" ->
            Dict(<<"pointer">>,
                 <<Dict(<<"address", "data_reference">>,
                        <<Str(AddressText(Len(table))),
                          Str(<<reply.query.data_reference>>)>>)>>)
      [] reply.query.action = "get_neighbors" ->
            LET listed == SortedAddresses({ n.address : n \in reply.neighbors })
            IN  Dict(<<"neighbors">>,
                     <<List([k \in DOMAIN listed |->
                              Dict(<<"address">>,
                                   <<Str(AddressText(listed[k]))>>)])>>)
      [] reply.query.action = "set_connection_status" ->
            Dict(<<"message">>, <<Str(<<"Connection '1' status set to 'disabled'.">>)>>)
      [] OTHER ->
            Dict(<<"message">>, <<Str(<<"Neighbor added successfully.">>)>>)

\* What _execute_circuit returned: the list of results, or the reply of the
\* step that stopped it (a status and a message, no results).
Returned(kind, status, results) ==
    [kind |-> kind, status |-> status, results |-> results]
NoReturn == Returned("none", "none", <<>>)
IdleRun ==
    [phase |-> "idle", query |-> BlankQuery, definition |-> <<>>,
     results |-> <<>>, log |-> <<>>, returned |-> NoReturn]

\* Variant: every reply counts as a success.
StepSucceededAlways(reply) == TRUE

\* result.get("status") == "success"
StepSucceeded(reply) == reply.status = "success"

\* handler(substituted_action) for the handlers the definitions name.
Dispatch(action) ==
    \/ /\ ActionName(action.action) = "create_pointer"
       /\ CreatePointer(DataReferenceOf(action.data_reference),
                        NoCoord, NoCoord, NoCoord, 0)
    \/ /\ ActionName(action.action) = "get_neighbors"
       /\ GetNeighbors(AddressOf(action.pointer_address))
    \/ /\ ActionName(action.action) = "add_neighbor"
       /\ AddNeighbor(AddressOf(action.pointer_address),
                      AddressOf(action.neighbor_address), "", 100)
    \/ /\ ActionName(action.action) = "set_connection_status"
       /\ SetConnectionStatus(StepAuthContext(action),
                              ConnectionOf(action.connection_id),
                              StatusOf(action.status))

\* invoke_through_connection up to the call of _execute_circuit: a refused
\* call and a pointer that is no circuit are answered at once; text that is
\* not JSON makes json.loads raise; otherwise the circuit starts with an
\* empty accumulator.
CircuitBegin(auth_context, connection_id, pointer_address) ==
    LET q == [BlankQuery EXCEPT !.action = "invoke_through_connection",
                                !.auth_context = auth_context,
                                !.pointer_address = pointer_address,
                                !.connection_id = connection_id]
        started == [IdleRun EXCEPT !.query = q]
    IN  /\ run.phase \in {"idle", "done"}
        /\ IF InvokeRefusal(auth_context, connection_id, pointer_address) # "none"
           THEN /\ InvokeThroughConnection(auth_context, connection_id,
                                           pointer_address, "ok")
                /\ run' = IdleRun
           ELSE IF ~IsCircuit(pointers[pointer_address].data_reference)
           THEN /\ InvokeThroughConnection(auth_context, connection_id,
                                           pointer_address, "ok")
                /\ run' = IdleRun
           ELSE IF ~ParsesAsJson(pointers[pointer_address].data_reference)
           THEN /\ run' = [started EXCEPT
                              !.phase = "returning",
                              !.returned = Returned("raised", "none", <<>>)]
                /\ UNCHANGED <<store, last>>
           ELSE /\ run' = [started EXCEPT
                              !.phase = "running",
                              !.definition = CircuitDefinition(
                                    pointers[pointer_address].data_reference)]
                /\ UNCHANGED <<store, last>>
        /\ UNCHANGED race

\* One turn of the loop of _execute_circuit: substitute, look the handler up,
\* call it, and append its result or stop with its reply.  log keeps, for
\* each step handed to a handler, its position, the accumulator it was
\* substituted against, and the status and result of its reply.
CircuitStep ==
    LET i == Len(run.results) + 1
        substituted == SubstituteValues(run.definition[i], run.results)
        action_name == ActionName(substituted.action.action)
        stop(kind, status) ==
            [run EXCEPT !.phase = "returning",
                        !.returned =
                            Returned(kind, status,
                                     IF kind = "results" THEN run.results
                                     ELSE <<>>)]
    IN  /\ run.phase = "running"
        /\ IF i > Len(run.definition)
           THEN /\ run' = stop("results", "none")
                /\ UNCHANGED <<store, last>>
           ELSE IF substituted.raised
           THEN /\ run' = stop("raised", "none")
                /\ UNCHANGED <<store, last>>
           ELSE IF action_name = "" \/ action_name \notin Actions
           THEN /\ run' = stop("failure", "error")
                /\ UNCHANGED <<store, last>>
           ELSE /\ Dispatch(substituted.action)
                /\ run' =
                     LET entry == [index |-> i, accumulator |-> run.results,
                                   status |-> last'.status,
                                   payload |-> ResultPayload(last', pointers')]
                     IN  IF StepSucceeded(last')
                         THEN [run EXCEPT
                                 !.results = Append(@, ResultPayload(last', pointers')),
                                 !.log = Append(@, entry)]
                         ELSE [stop("failure", last'.status) EXCEPT
                                 !.log = Append(@, entry)]
        /\ UNCHANGED race

\* The reply of invoke_through_connection: status success around whatever
\* _execute_circuit returned, or the error of the except branch.
CircuitReturn ==
    /\ run.phase = "returning"
    /\ last' = IF run.returned.kind = "raised"
               THEN Error(run.query, "circuit_failed")
               ELSE Response(run.query, "success", "circuit", FALSE)
    /\ run' = [run EXCEPT !.phase = "done"]
    /\ UNCHANGED <<store, race>>

(* ------------------------- unregistered actions ----------------------- *)
\* The str 'admin' as permissions, apart from every list of permissions, and
\* the auth_context None of a passthrough request.
AdminString == {"'admin'"}
DirectAdmin ==
    [key |-> 0, domain_id |-> "passthrough_domain", permissions |-> AdminString]
AbsentAuth == [key |-> 0, domain_id |-> NULL, permissions |-> {"None"}]

\* The names the chain of _handle_unrefactored_action serves.
FallbackNames ==
    {"clear_audit_log", "get_all_tags", "get_unassigned_pointers",
     "get_available_apis", "find_pointers_by_tag", "get_pointer_relationships",
     "get_isolated_pointers", "get_relationships_by_type"}

\* Variant: a name nobody serves is answered with a success.
UnknownActionReplyEcho(q) == Success(q, "echo")

\* The else branch: "Unknown action".
UnknownActionReply(q) == Error(q, "unknown_action")

\* The reply of each branch of the chain.  given: the query carries the
\* parameter the branch requires (tag, pointer_address, relationship_type).
\* An exception that leaves invoke (auth_context None has no .get) is
\* answered by handle_invocation with an error reply.  The branches read the
\* tables and write the audit log only.
FallbackReply(q, given) ==
    CASE q.action = "clear_audit_log" ->
            IF q.auth_context = AbsentAuth THEN Error(q, "failed_to_process")
            ELSE IF q.auth_context.permissions # AdminString
            THEN Error(q, "denied")
            ELSE Success(q, "cleared")
      [] q.action \in {"get_unassigned_pointers", "get_isolated_pointers"} ->
            IF q.auth_context = AbsentAuth THEN Error(q, "failed_to_process")
            ELSE IF ~IsAdmin(q.auth_context) THEN Error(q, "denied")
            ELSE Success(q, "listed")
      [] q.action \in {"get_all_tags", "get_available_apis"} ->
            Success(q, "listed")
      [] q.action \in {"find_pointers_by_tag", "get_pointer_relationships"} ->
            IF ~given THEN Error(q, "missing") ELSE Success(q, "listed")
      [] q.action = "get_relationships_by_type" ->
            \* rows = cursor.fetchall() reads a cursor the branch never binds.
            IF ~given THEN Error(q, "missing") ELSE Error(q, "fetch_failed")
      [] OTHER -> UnknownActionReply(q)

UnrefactoredAction(q, given) ==
    /\ UNCHANGED store
    /\ last' = FallbackReply(q, given)

\* invoke for a query whose action no handler is registered for.
InvokeUnregistered(action_name, auth_context, given) ==
    LET q == [BlankQuery EXCEPT !.action = action_name,
                                !.auth_context = auth_context,
                                !.pointer_address = IF given THEN 1 ELSE 0]
    IN  /\ action_name \notin Actions
        /\ IF action_name = ""
           THEN /\ last' = Error(q, "no_action")
                /\ UNCHANGED store
           ELSE UnrefactoredAction(q, given)

(* ---------------------- domains and access keys ----------------------- *)
\* An exception that leaves invoke instead of a returned value.
Raise(q, msg) == Response(q, "raised", msg, FALSE)

\* execute_creation_model: CycleModule has no __init__, so start_cycle, the
\* first statement after the parameter check, raises AttributeError on
\* self._active_cycles before anything is written.
ExecuteCreationModel(pointer_address) ==
    LET q == [BlankQuery EXCEPT !.action = "execute_creation_model",
                                !.pointer_address = pointer_address]
    IN  /\ UNCHANGED store
        /\ last' = IF pointer_address = 0
                   THEN Error(q, "missing")
                   ELSE Raise(q, "attribute_error")

\* domains holds the rows [id, name].  The id of a new domain is a uuid4
\* value: any identifier no row uses.
DomainNames == {"", "alpha"}

CreateDomain(name, domain_id) ==
    LET q == [BlankQuery EXCEPT !.action = "create_domain", !.domain_id = domain_id]
    IN  /\ domain_id \in Domains \ { d.id : d \in domains }
        /\ IF name = ""
           THEN /\ last' = Error(q, "missing")
                /\ UNCHANGED domains
           ELSE IF \E d \in domains : d.name = name
           THEN \* name TEXT NOT NULL UNIQUE: the INSERT raises IntegrityError.
                /\ last' = Raise(q, "integrity_error")
                /\ UNCHANGED domains
           ELSE /\ domains' = domains \cup {[id |-> domain_id, name |-> name]}
                /\ last' = Success(q, "created")
        /\ UNCHANGED <<store, access_keys>>

\* access_keys holds one row per key generated, in the order of generation.
\* key is a uuid4 value, never generated twice: the place of a deleted row
\* stays in the sequence, holds NoKey and stands for no row.
NoKey == [key |-> 0, domain_id |-> NULL, permissions |-> {}, live |-> FALSE]

\* "SELECT ... FROM access_keys WHERE key = ?" and fetchone().
KeyRow(key) ==
    IF key \in DOMAIN access_keys /\ access_keys[key].live
    THEN access_keys[key] ELSE NoKey

\* The permissions a generate_access_key query carries: a list, a
\* comma-separated str (absent: "read_write"), or a value of another type.
PermissionInputs ==
    {<<"list", {"read_write"}>>, <<"list", {"admin_domain", "read_write"}>>,
     <<"str", {"read_write"}>>, <<"other", {}>>}

GenerateAccessKey(domain_id, permissions_input) ==
    LET q == [BlankQuery EXCEPT !.action = "generate_access_key",
                                !.domain_id = domain_id]
        access_key == FreshId(access_keys)
    IN  /\ IF domain_id = NULL
           THEN /\ last' = Error(q, "missing")
                /\ UNCHANGED access_keys
           ELSE IF permissions_input[1] \notin {"str", "list"}
           THEN /\ last' = Error(q, "bad_permissions")
                /\ UNCHANGED access_keys
           ELSE /\ access_keys' = Append(access_keys,
                        [key |-> access_key, domain_id |-> domain_id,
                         permissions |-> permissions_input[2], live |-> TRUE])
                /\ last' = Success([q EXCEPT !.key_to_revoke = access_key],
                                   "generated")
        /\ UNCHANGED <<store, domains>>

\* Variant: a key of any domain passes the ownership check.
ForeignKeyAnyDomain(key_row, admin_domain_id) == FALSE

\* key_row['domain_id'] != admin_domain_id
ForeignKey(key_row, admin_domain_id) == key_row.domain_id # admin_domain_id

\* Variant: the DELETE removes nothing.
DeleteKeyNothing(key) == access_keys

\* DELETE FROM access_keys WHERE key = ?
DeleteKey(key) == [access_keys EXCEPT ![key] = NoKey]

RevokeAccessKey(auth_context, key_to_revoke) ==
    LET q == [BlankQuery EXCEPT !.action = "revoke_access_key",
                                !.auth_context = auth_context,
                                !.key_to_revoke = key_to_revoke]
        key_row == KeyRow(key_to_revoke)
    IN  /\ IF auth_context = AbsentAuth
           THEN \* None has no .get: AttributeError.
                /\ last' = Raise(q, "attribute_error")
                /\ UNCHANGED access_keys
           ELSE IF ~IsAdmin(auth_context)
           THEN /\ last' = Error(q, "denied")
                /\ UNCHANGED access_keys
           ELSE IF key_to_revoke = 0
           THEN /\ last' = Error(q, "missing")
                /\ UNCHANGED access_keys
           ELSE IF key_row = NoKey
           THEN /\ last' = Error(q, "not_found")
                /\ UNCHANGED access_keys
           ELSE IF ForeignKey(key_row, auth_context.domain_id)
           THEN /\ last' = Error(q, "denied")
                /\ UNCHANGED access_keys
           ELSE IF key_to_revoke = auth_context.key
           THEN /\ last' = Error(q, "self_revoke")
                /\ UNCHANGED access_keys
           ELSE /\ access_keys' = DeleteKey(key_to_revoke)
                /\ last' = Success(q, "revoked")
        /\ UNCHANGED <<store, domains>>

\* dict(domain_cursor.fetchone()) raises TypeError when the domain has no row.
GetDomainDetails(auth_context) ==
    LET q == [BlankQuery EXCEPT !.action = "get_domain_details",
                                !.auth_context = auth_context]
        domain_id == auth_context.domain_id
    IN  /\ UNCHANGED <<store, access_keys, domains>>
        /\ last' =
            IF auth_context = AbsentAuth
            THEN Raise(q, "attribute_error")
            ELSE IF ~IsAdmin(auth_context)
            THEN Error(q, "denied")
            ELSE IF ~\E d \in domains : d.id = domain_id
            THEN Raise(q, "type_error")
            ELSE [Success(q, "details") EXCEPT
                    !.disclosed =
                        [connections |->
                            { c \in DOMAIN connections :
                                connections[c].domain_id = domain_id },
                         access_keys |->
                            { k \in DOMAIN access_keys :
                                KeyRow(k).domain_id = domain_id },
                         federations |-> {}]]

GetFederationStatus(auth_context) ==
    LET q == [BlankQuery EXCEPT !.action = "get_federation_status",
                                !.auth_context = auth_context]
        domain_id == auth_context.domain_id
    IN  /\ UNCHANGED <<store, access_keys, domains>>
        /\ last' =
            IF auth_context = AbsentAuth
            THEN Raise(q, "attribute_error")
            ELSE IF ~IsAdmin(auth_context)
            THEN Error(q, "denied")
            ELSE [Success(q, "federations") EXCEPT
                    !.disclosed =
                        [NoDisclosure EXCEPT !.federations =
                            { f \in DOMAIN federations :
                                \/ federations[f].source_domain_id = domain_id
                                \/ federations[f].target_domain_id = domain_id }]]

(* ----------------------------- the audit log -------------------------- *)
\* audit_log holds the rows of the table in the order of their ids; a row is
\* the action it names.  The handlers that call audit_module.log do so once,
\* on the path that returns success (create_circuit: whatever
\* create_pointer returned); invoke_through_connection logs
\* "invoke_and_proxy".  create_pointer, add_neighbor, create_connection and
\* assign_pointer_to_connection have no call of audit_module.log.
LoggedOnSuccess ==
    {"revoke_federation", "initiate_federation", "accept_federation",
     "create_domain", "revoke_access_key", "set_connection_status",
     "generate_access_key", "clear_audit_log", "get_all_tags",
     "get_unassigned_pointers", "get_available_apis", "find_pointers_by_tag",
     "get_pointer_relationships", "get_isolated_pointers"}

AuditEntries(reply) ==
    IF reply.query.action = "create_circuit" /\ reply.status # "raised"
    THEN <<"create_circuit">>
    ELSE IF reply.query.action = "invoke_through_connection"
            /\ reply.status = "success"
    THEN <<"invoke_and_proxy">>
    ELSE IF reply.query.action \in LoggedOnSuccess /\ reply.status = "success"
    THEN <<reply.query.action>>
    ELSE <<>>

\* The audit_log table after the handler that returned reply: the success
\* path of clear_audit_log runs DELETE FROM audit_log before it logs.
WriteAudit(reply) ==
    IF reply.query.action = "clear_audit_log" /\ reply.status = "success"
    THEN AuditEntries(reply)
    ELSE audit_log \o AuditEntries(reply)

(* --------------------------- the /invoke route ------------------------ *)
\* A word of an Authorization header: a scheme name, the empty str, a str
\* that is no JWT, or a JWT with its signature (made with SECRET_KEY or
\* not), its exp claim (passed or not) and its access_key claim (0: none).
Word(kind, signed, expired, access_key) ==
    [kind |-> kind, signed |-> signed, expired |-> expired,
     access_key |-> access_key]
Bearer == Word("Bearer", FALSE, FALSE, 0)
Basic == Word("Basic", FALSE, FALSE, 0)
EmptyWord == Word("", FALSE, FALSE, 0)
Garbage == Word("garbage", FALSE, FALSE, 0)
Jwt(signed, expired, access_key) == Word("jwt", signed, expired, access_key)

\* jwt.decode(token, SECRET_KEY, algorithms=["HS256"]): the segments, then
\* the signature, then the exp claim.
JwtDecode(token) ==
    IF token.kind # "jwt" THEN "InvalidTokenError"
    ELSE IF ~token.signed THEN "InvalidTokenError"
    ELSE IF token.expired THEN "ExpiredSignatureError"
    ELSE "payload"

\* The configuration file has no authentication_mode entry.
NoSetting == "absent"

\* Variant: a configuration without authentication_mode means passthrough.
AuthModeOpen ==
    IF config.authentication_mode = NoSetting THEN "passthrough"
    ELSE config.authentication_mode

\* _config.get('authentication_mode', 'internal')
AuthMode ==
    IF config.authentication_mode = NoSetting THEN "internal"
    ELSE config.authentication_mode

\* What the decorator does with a request: it answers 401 itself, or it
\* calls the route with a payload whose 'auth_context' is the third field
\* (None when the payload has none).
Unauthorized(message) ==
    [rejected |-> TRUE, message |-> message, auth_context |-> NoAuth]
Passed(auth_context) ==
    [rejected |-> FALSE, message |-> "", auth_context |-> auth_context]

\* request.authorization is the header split at " "; <<>> when the request
\* has no Authorization header.
TokenRequired(request) ==
    LET words == request.authorization
        token == words[2]
        key_row == KeyRow(token.access_key)
    IN  IF words = <<>> THEN Unauthorized("missing")
        ELSE IF AuthMode = "passthrough" THEN Passed(AbsentAuth)
        ELSE IF Len(words) < 2 THEN Unauthorized("malformed")
        ELSE IF token = EmptyWord THEN Unauthorized("missing")
        ELSE IF JwtDecode(token) = "ExpiredSignatureError"
        THEN Unauthorized("expired")
        ELSE IF JwtDecode(token) = "InvalidTokenError"
        THEN Unauthorized("invalid")
        ELSE IF token.access_key = 0 THEN Unauthorized("no_access_key")
        ELSE IF key_row = NoKey THEN Unauthorized("revoked")
        ELSE Passed([key |-> token.access_key, domain_id |-> key_row.domain_id,
                     permissions |-> key_row.permissions])

NoRequest == [authorization |-> <<>>, sealed |-> FALSE, action |-> NULL,
              key_to_revoke |-> 0]
\* handled: the decorator called the route.  status: the status of the
\* envelope in the body.
NoExchange ==
    [request |-> NoRequest, code |-> 0, handled |-> FALSE, status |-> NULL]
Exchange(request, code, handled, status) ==
    [request |-> request, code |-> code, handled |-> handled,
     status |-> status]

\* invoke for the queries a request of the model carries.
InvokeQuery(action_name, auth_context, key_to_revoke) ==
    IF action_name = "get_graph_stats"
    THEN GetGraphStats /\ UNCHANGED <<access_keys, domains>>
    ELSE RevokeAccessKey(auth_context, key_to_revoke)

\* POST /invoke.  sealed: the body decrypts to a query.  An exception in the
\* route, one leaving invoke included, is answered 400 with an error
\* envelope.
HandleInvocation(request) ==
    LET t == TokenRequired(request)
    IN  IF t.rejected
        THEN /\ http' = Exchange(request, 401, FALSE, NULL)
             /\ UNCHANGED <<store, last, access_keys, domains>>
        ELSE IF ~request.sealed
        THEN /\ http' = Exchange(request, 400, TRUE, "error")
             /\ UNCHANGED <<store, last, access_keys, domains>>
        ELSE /\ InvokeQuery(request.action, t.auth_context,
                            request.key_to_revoke)
             /\ http' = IF last'.status = "raised"
                        THEN Exchange(request, 400, TRUE, "error")
                        ELSE Exchange(request, 200, TRUE, last'.status)

(* ------------------------------- /report ------------------------------ *)
CACHE_TTL_SECONDS == 300

\* The api types a request names: none, two of the predefined table, one
\* that is not in it.
PredefinedApis == {"news", "trivia"}
ReportTypes == PredefinedApis \cup {"", "bogus"}

\* _report_cache = {}: no api type has an entry.
NoEntry == [timestamp |-> -1, data |-> NULL]
NoCache == [t \in ReportTypes |-> NoEntry]

\* What requests.get, raise_for_status and response.json() come to: a
\* payload, or an exception of the kinds the except clause names.
Payloads == {"payload_1", "payload_2"}
UpstreamOutcomes == Payloads \cup {"RequestException", "JSONDecodeError"}

\* The last GET /report: the reading of time.time(), the type asked for, the
\* status code, whether requests.get was called, and the body.
Served(current_time, api_type, code, outbound, body) ==
    [current_time |-> current_time, api_type |-> api_type, code |-> code,
     outbound |-> outbound, body |-> body]
NoReport == Served(0, "", 0, FALSE, NULL)

\* Variant: an entry exactly CACHE_TTL_SECONDS old is still served.
CacheHitInclusive(api_type, current_time) ==
    /\ report_cache[api_type] # NoEntry
    /\ current_time - report_cache[api_type].timestamp <= CACHE_TTL_SECONDS

\* api_type in _report_cache and
\* (current_time - _report_cache[api_type]['timestamp']) < CACHE_TTL_SECONDS
CacheHit(api_type, current_time) ==
    /\ report_cache[api_type] # NoEntry
    /\ current_time - report_cache[api_type].timestamp < CACHE_TTL_SECONDS

\* GET /report?type=api_type at current_time, the upstream answering upstream.
\* A failed fetch is answered with an error body and no status code of its
\* own, hence 200.
GenerateReport(api_type, current_time, upstream) ==
    IF api_type = ""
    THEN /\ report' = Served(current_time, api_type, 400, FALSE, "error")
         /\ UNCHANGED report_cache
    ELSE IF CacheHit(api_type, current_time)
    THEN /\ report' = Served(current_time, api_type, 200, FALSE,
                             report_cache[api_type].data)
         /\ UNCHANGED report_cache
    ELSE IF api_type \notin PredefinedApis
    THEN /\ report' = Served(current_time, api_type, 404, FALSE, "error")
         /\ UNCHANGED report_cache
    ELSE IF upstream \in Payloads
    THEN /\ report_cache' = [report_cache EXCEPT ![api_type] =
                                [timestamp |-> current_time, data |-> upstream]]
         /\ report' = Served(current_time, api_type, 200, TRUE, upstream)
    ELSE /\ report' = Served(current_time, api_type, 200, TRUE, "error")
         /\ UNCHANGED report_cache

(* -------------------- racing accept_federation calls ------------------ *)
\* One accept_federation call per caller, split at its calls into the store:
\* the parameter checks, the conditional UPDATE, the commit, the reply.
AcceptBegin(c, auth_context, request_key) ==
    /\ pc[c] = "idle"
    /\ racer' = [racer EXCEPT ![c] =
                    [auth_context |-> auth_context, request_key |-> request_key]]
    /\ IF ~IsAdmin(auth_context) \/ request_key = 0
       THEN /\ pc' = [pc EXCEPT ![c] = "done"]
            /\ result' = [result EXCEPT ![c] = "error"]
       ELSE /\ pc' = [pc EXCEPT ![c] = "update"]
            /\ UNCHANGED result
    /\ UNCHANGED <<store, last, rowcount>>

AcceptExecute(c) ==
    /\ pc[c] = "update"
    /\ federations' = AcceptUpdate(racer[c].request_key,
                                   racer[c].auth_context.domain_id)
    /\ rowcount' = [rowcount EXCEPT ![c] =
            Cardinality(AcceptMatches(racer[c].request_key,
                                      racer[c].auth_context.domain_id))]
    /\ pc' = [pc EXCEPT ![c] = "commit"]
    /\ UNCHANGED <<pointers, relationships, connections, last, racer, result>>

AcceptCommit(c) ==
    /\ pc[c] = "commit"
    /\ pc' = [pc EXCEPT ![c] = "reply"]
    /\ UNCHANGED <<store, last, rowcount, racer, result>>

AcceptReply(c) ==
    /\ pc[c] = "reply"
    /\ result' = [result EXCEPT ![c] =
                    IF rowcount[c] = 0 THEN "error" ELSE "success"]
    /\ pc' = [pc EXCEPT ![c] = "done"]
    /\ UNCHANGED <<store, last, rowcount, racer>>

(* ---------------------- racing create_pointer calls ------------------- *)
\* One create_pointer call per caller on the connection all callers share,
\* split at its calls into the store: the duplicate SELECT, the INSERT of
\* the pointer, the commit, the gyroid INSERT, its commit, the reply.
CreateBegin(c, data_reference) ==
    /\ pc[c] = "idle"
    /\ racer' = [racer EXCEPT ![c] =
                    [query |-> [BlankQuery EXCEPT
                                    !.action = "create_pointer",
                                    !.data_reference = data_reference],
                     address |-> 0]]
    /\ IF data_reference = ""
       THEN /\ pc' = [pc EXCEPT ![c] = "done"]
            /\ result' = [result EXCEPT ![c] = "missing"]
       ELSE IF PointerWithReference(data_reference) # {}
       THEN /\ pc' = [pc EXCEPT ![c] = "done"]
            /\ result' = [result EXCEPT ![c] = "exists"]
       ELSE /\ pc' = [pc EXCEPT ![c] = "insert"]
            /\ UNCHANGED result
    /\ UNCHANGED <<store, last, rowcount>>

\* data_reference is UNIQUE: the INSERT of a second row with the same value
\* raises sqlite3.IntegrityError, which nothing in the handler catches.
CreateInsert(c) ==
    /\ pc[c] = "insert"
    /\ IF PointerWithReference(racer[c].query.data_reference) # {}
       THEN /\ pc' = [pc EXCEPT ![c] = "done"]
            /\ result' = [result EXCEPT ![c] = "raised"]
            /\ UNCHANGED <<store, racer>>
       ELSE /\ pointers' = Append(pointers, NewPointer(racer[c].query))
            /\ racer' = [racer EXCEPT ![c].address = FreshId(pointers)]
            /\ pc' = [pc EXCEPT ![c] = "commit"]
            /\ UNCHANGED <<relationships, connections, federations, result>>
    /\ UNCHANGED <<last, rowcount>>

CreateCommit(c) ==
    /\ pc[c] = "commit"
    /\ pc' = [pc EXCEPT ![c] = "gyroid"]
    /\ UNCHANGED <<store, last, rowcount, racer, result>>

CreateGyroid(c) ==
    /\ pc[c] = "gyroid"
    /\ relationships' = AddPointerToGyroidStructure(racer[c].address, pointers)
    /\ pc' = [pc EXCEPT ![c] = "settle"]
    /\ UNCHANGED <<pointers, connections, federations, last, rowcount, racer,
                   result>>

CreateSettle(c) ==
    /\ pc[c] = "settle"
    /\ pc' = [pc EXCEPT ![c] = "reply"]
    /\ UNCHANGED <<store, last, rowcount, racer, result>>

CreateReply(c) ==
    /\ pc[c] = "reply"
    /\ result' = [result EXCEPT ![c] = "success"]
    /\ pc' = [pc EXCEPT ![c] = "done"]
    /\ UNCHANGED <<store, last, rowcount, racer>>

(* --------------------- racing revoke_access_key calls ----------------- *)
\* One POST /invoke that carries revoke_access_key per caller, split at its
\* calls into the store: the SELECT of token_required, the SELECT and the
\* checks of the handler, the DELETE with its commit, the reply.
RevokeEnter(c, access_key, key_to_revoke) ==
    LET t == TokenRequired([NoRequest EXCEPT
                !.authorization = <<Bearer, Jwt(TRUE, FALSE, access_key)>>])
    IN  /\ pc[c] = "idle"
        /\ IF t.rejected
           THEN /\ pc' = [pc EXCEPT ![c] = "done"]
                /\ result' = [result EXCEPT ![c] = "unauthorized"]
                /\ UNCHANGED racer
           ELSE /\ pc' = [pc EXCEPT ![c] = "check"]
                /\ racer' = [racer EXCEPT ![c] =
                                [auth_context |-> t.auth_context,
                                 key_to_revoke |-> key_to_revoke]]
                /\ UNCHANGED result
        /\ UNCHANGED <<store, last, rowcount, rest>>

RevokeCheck(c) ==
    LET auth_context == racer[c].auth_context
        key_to_revoke == racer[c].key_to_revoke
        key_row == KeyRow(key_to_revoke)
        refusal ==
            IF ~IsAdmin(auth_context) THEN "denied"
            ELSE IF key_to_revoke = 0 THEN "missing"
            ELSE IF key_row = NoKey THEN "not_found"
            ELSE IF ForeignKey(key_row, auth_context.domain_id) THEN "denied"
            ELSE IF key_to_revoke = auth_context.key THEN "self_revoke"
            ELSE "none"
    IN  /\ pc[c] = "check"
        /\ IF refusal = "none"
           THEN /\ pc' = [pc EXCEPT ![c] = "delete"]
                /\ UNCHANGED result
           ELSE /\ pc' = [pc EXCEPT ![c] = "done"]
                /\ result' = [result EXCEPT ![c] = refusal]
        /\ UNCHANGED <<store, last, rowcount, racer, rest>>

RevokeDelete(c) ==
    /\ pc[c] = "delete"
    /\ access_keys' = DeleteKey(racer[c].key_to_revoke)
    /\ pc' = [pc EXCEPT ![c] = "reply"]
    /\ UNCHANGED <<store, last, rowcount, racer, result, audit_log, domains,
                   config, http, report_cache, report>>

RevokeReply(c) ==
    /\ pc[c] = "reply"
    /\ result' = [result EXCEPT ![c] = "success"]
    /\ pc' = [pc EXCEPT ![c] = "done"]
    /\ UNCHANGED <<store, last, rowcount, racer, rest>>

(* --------------------------- specifications --------------------------- *)
\* No audit entry, no access key, no domain, a configuration file that sets
\* no authentication_mode, and no request answered.
NoRest ==
    /\ audit_log = <<>>
    /\ access_keys = <<>>
    /\ domains = {}
    /\ config = [authentication_mode |-> NoSetting]
    /\ http = NoExchange
    /\ report_cache = NoCache
    /\ report = NoReport

NoRace ==
    /\ pc = [c \in 1..NumCallers |-> "idle"]
    /\ rowcount = [c \in 1..NumCallers |-> 0]
    /\ racer = [c \in 1..NumCallers |->
                    [auth_context |-> NoAuth, request_key |-> 0]]
    /\ result = [c \in 1..NumCallers |-> NULL]

Init ==
    /\ pointers = <<>>
    /\ relationships = {}
    /\ connections = <<>>
    /\ federations = <<>>
    /\ last = Response(BlankQuery, NULL, NULL, FALSE)
    /\ NoRace
    /\ NoRest
    /\ run = NoRun

\* Graph engine alone.
NextGraph ==
    /\ \E d \in DataReferences, xyz \in CoordInputs, c \in 0..MaxConnections :
            CreatePointer(d, xyz[1], xyz[2], xyz[3], c)
    /\ Len(pointers') <= MaxPointers
    /\ UNCHANGED <<race, run, rest>>

SpecGraph == Init /\ [][NextGraph]_vars

\* Placeholder substitution alone: every parameter text against every list
\* of accumulated results up to MaxResults entries.
ParameterTexts ==
    { Placeholder(<<"results", ".", "0", ".", "address">>),
      Placeholder(<<"results", ".", "9", ".", "x">>),
      Placeholder(<<"results", "[", "0", "]", ".", "address">>),
      Placeholder(<<"0", ".", "address">>),
      Placeholder(<<"1", ".", "address">>),
      Placeholder(<<"0", ".", "pointer", ".", "address">>),
      Placeholder(<<"[", "0", "]", ".", "[", "'", "address", "'", "]">>),
      Placeholder(<<"9", ".", "x">>),
      Placeholder(<<"0", ".", "missing">>),
      Placeholder(<<"0", ".", "address", ".", "x">>),
      Placeholder(<<"0", ".", "address", ".", "0">>),
      Placeholder(<<"0", ".", "address", ".", "9">>),
      Placeholder(<<"0", ".", "0">>),
      Placeholder(<<"0">>),
      Placeholder(<<>>),
      <<"}", "0", "{">>,
      <<"x", "{", "0", ".", "address", "}", "y">>,
      AddressText(1) }

\* Result payloads: the example {address: "ptr_..."}, the payload of
\* create_pointer and the payload of get_neighbors.
ResultPayloads ==
    { Dict(<<"address">>, <<Str(AddressText(1))>>),
      Dict(<<"pointer">>, <<Dict(<<"address">>, <<Str(AddressText(2))>>)>>),
      Dict(<<"neighbors">>, <<List(<<>>)>>) }

ResultLists ==
    UNION { [1..n -> ResultPayloads] : n \in 0..MaxResults }

InitSubst ==
    /\ pointers = <<>>
    /\ relationships = {}
    /\ connections = <<>>
    /\ federations = <<>>
    /\ last = Response(BlankQuery, NULL, NULL, FALSE)
    /\ NoRace
    /\ NoRest
    /\ \E value \in ParameterTexts, results \in ResultLists :
            run = [phase |-> "input",
                   action |-> [action |-> <<"get_neighbors">>,
                               pointer_address |-> value],
                   results |-> results,
                   out |-> [raised |-> FALSE,
                            action |-> [action |-> <<>>,
                                        pointer_address |-> <<>>]]]

NextSubst == ApplySubstitute /\ UNCHANGED rest

SpecSubst == InitSubst /\ [][NextSubst]_vars

\* Circuits: a connection of dom_a, the pointers created on it (circuits
\* among them) and circuit runs one turn at a time.  A request is served to
\* its end before the next.
InitCircuit ==
    /\ pointers = <<>>
    /\ relationships = {}
    /\ connections = <<>>
    /\ federations = <<>>
    /\ last = Response(BlankQuery, NULL, NULL, FALSE)
    /\ NoRace
    /\ NoRest
    /\ run = IdleRun

CircuitCallers == {Member("dom_a"), Member("dom_b")}

NextCircuit ==
    /\ \/ /\ run.phase \in {"idle", "done"}
          /\ \/ CreateConnection(TRUE, "dom_a", FALSE)
             \/ \E d \in CircuitReferences \cup {"https://a.test/r"} :
                   /\ Len(pointers) < CircuitPointers
                   /\ CreatePointer(d, NoCoord, NoCoord, NoCoord, 1)
          /\ Len(connections') <= 1
          /\ UNCHANGED <<race, run>>
       \/ \E a \in CircuitCallers, p \in 1..CircuitPointers :
             CircuitBegin(a, 1, p)
       \/ CircuitStep
       \/ CircuitReturn
    /\ UNCHANGED rest

SpecCircuit == InitCircuit /\ [][NextCircuit]_vars

\* The dispatcher: queries that name a registered action next to queries
\* that name none, one the fallback chain serves, or one nobody serves.
DispatchCallers == {Admin("dom_a"), Member("dom_a"), DirectAdmin, AbsentAuth}

NextDispatch ==
    /\ \/ \E d \in DataReferences :
            CreatePointer(d, NoCoord, NoCoord, NoCoord, 0)
       \/ \E a \in 0..MaxPointers : GetNeighbors(a)
       \/ \E n \in FallbackNames \cup {"", "bogus"}, a \in DispatchCallers,
              given \in BOOLEAN :
            InvokeUnregistered(n, a, given)
    /\ Len(pointers') <= MaxPointers
    /\ UNCHANGED <<race, run, rest>>

SpecDispatch == Init /\ [][NextDispatch]_vars

\* Edges of the pointer graph: pointers with hashed coordinates, the edges
\* add_neighbor draws between them, and the reads of the graph.
NextEdges ==
    /\ \/ \E d \in DataReferences :
            CreatePointer(d, NoCoord, NoCoord, NoCoord, 0)
       \/ \E a \in 0..EdgePointers + 1, b \in 0..EdgePointers + 1,
              l \in EdgeLabels, w \in EdgeWeights :
            AddNeighbor(a, b, l, w)
       \/ \E a \in 0..EdgePointers : GetNeighbors(a)
       \/ GetGraphStats
    /\ Len(pointers') <= EdgePointers
    /\ LatestModified(Len(pointers))' <= MaxClock
    /\ UNCHANGED <<race, run, rest>>

SpecEdges == Init /\ [][NextEdges]_vars

\* Federation protocol alone.
FedCallers == {Admin(d) : d \in Domains} \cup {Member("dom_a"), NoAuth}

NextFed ==
    /\ \/ \E a \in FedCallers, t \in Domains \cup {NULL} :
            InitiateFederation(a, t, <<"read_pointers">>)
       \/ \E a \in FedCallers, k \in 0..MaxFederations :
            AcceptFederation(a, k)
       \/ \E a \in FedCallers, f \in 0..MaxFederations :
            RevokeFederation(a, f)
    /\ Len(federations') <= MaxFederations
    /\ UNCHANGED <<race, run, rest>>

SpecFed == Init /\ [][NextFed]_vars

\* N callers racing accept_federation on a store holding one pending request.
InitAccept ==
    /\ pointers = <<>>
    /\ relationships = {}
    /\ connections = <<>>
    /\ \E s \in Domains : \E t \in Domains \ {s} :
            federations = <<[id |-> 1, source_domain_id |-> s,
                             target_domain_id |-> t, status |-> "pending",
                             permissions |-> <<"read_pointers">>,
                             request_key |-> 1]>>
    /\ last = Response(BlankQuery, NULL, NULL, FALSE)
    /\ NoRace
    /\ NoRest
    /\ run = NoRun

NextAccept ==
    /\ \E c \in 1..NumCallers :
        \/ \E a \in FedCallers, k \in 0..2 : AcceptBegin(c, a, k)
        \/ AcceptExecute(c)
        \/ AcceptCommit(c)
        \/ AcceptReply(c)
    /\ UNCHANGED <<run, rest>>

SpecAccept == InitAccept /\ [][NextAccept]_vars

\* Access control: connections of dom_b, callers of three domains, and the
\* federations dom_a asks of dom_b.
AccessCallers ==
    {Admin("dom_a"), Member("dom_a"), Admin("dom_b"), Member("dom_c")}

Next ==
    /\ \/ \E d \in {"", "https://a.test/r"}, c \in 0..AccessConnections :
            CreatePointer(d, NoCoord, NoCoord, NoCoord, c)
       \/ \E n \in BOOLEAN, w \in BOOLEAN :
            CreateConnection(n, "dom_b", w)
       \/ \E a \in AccessCallers, p \in 0..AccessPointers,
              c \in 0..AccessConnections :
            AssignPointerToConnection(a, p, c)
       \/ \E a \in AccessCallers, p \in 0..AccessPointers,
              c \in 0..AccessConnections :
            InvokeThroughConnection(a, c, p, "ok")
       \/ \E a \in AccessCallers, c \in 0..AccessConnections :
            GetPointersForConnection(a, c)
       \/ \E a \in {Admin("dom_a"), Member("dom_a")}, p \in FederationPermissions :
            InitiateFederation(a, "dom_b", p)
       \/ \E a \in AccessCallers, k \in 0..AccessFederations :
            AcceptFederation(a, k)
       \/ \E a \in AccessCallers, f \in 0..AccessFederations :
            RevokeFederation(a, f)
    /\ Len(pointers') <= AccessPointers
    /\ Len(connections') <= AccessConnections
    /\ Len(federations') <= AccessFederations
    /\ UNCHANGED <<race, run, rest>>

Spec == Init /\ [][Next]_vars

\* Proximity search: pointers placed at given or hashed coordinates and
\* searches from every address with every radius.
ProximityReferences == DataReferences \cup {"https://c.test/r"}
ProximityCoords ==
    {<<NoCoord, NoCoord, NoCoord>>, <<0, NoCoord, NoCoord>>,
     <<300, 0, NoCoord>>, <<1000, 0, 700>>, <<300, 400, NoCoord>>}
Radii == {NoRadius, 0, 500}

NextProximity ==
    /\ \/ \E d \in ProximityReferences, xyz \in ProximityCoords :
            CreatePointer(d, xyz[1], xyz[2], xyz[3], 0)
       \/ \E o \in 0..ProximityPointers + 1, r \in Radii :
            SearchByProximity(o, r)
    /\ Len(pointers') <= ProximityPointers
    /\ UNCHANGED <<race, run, rest>>

SpecProximity == Init /\ [][NextProximity]_vars

\* Domain administration: domains, keys, connections and federations of two
\* domains, and the administrative actions called by admins and members of
\* either, with or without a key of their own.
AdminDomains == {"dom_a", "dom_b"}
\* The admin of dom_a calls with the first key generated.
AdminCallers ==
    {[Admin("dom_a") EXCEPT !.key = 1], Admin("dom_b"), Member("dom_a"), NoAuth}

NextAdmin ==
    /\ \/ \E n \in DomainNames, d \in AdminDomains : CreateDomain(n, d)
       \/ \E d \in AdminDomains \cup {NULL},
              p \in {<<"list", {"admin_domain", "read_write"}>>, <<"other", {}>>} :
            GenerateAccessKey(d, p)
       \/ \E a \in AdminCallers, k \in 0..MaxKeys : RevokeAccessKey(a, k)
       \/ \E a \in AdminCallers : GetDomainDetails(a)
       \/ \E a \in AdminCallers : GetFederationStatus(a)
       \/ CreateConnection(TRUE, "dom_a", FALSE) /\ UNCHANGED <<access_keys, domains>>
       \/ \E a \in AdminCallers, c \in 0..AccessConnections,
              st \in {"active", "disabled"} :
            SetConnectionStatus(a, c, st) /\ UNCHANGED <<access_keys, domains>>
       \/ InitiateFederation(Admin("dom_a"), "dom_c", <<"read_pointers">>)
                /\ UNCHANGED <<access_keys, domains>>
    /\ Len(access_keys') <= MaxKeys
    /\ Len(connections') <= AccessConnections
    /\ Len(federations') <= AccessFederations
    /\ UNCHANGED <<race, run, audit_log, config, http, report_cache, report>>

SpecAdmin == Init /\ [][NextAdmin]_vars

\* The /invoke route over a store of access keys, under each configuration
\* main() can load.  Keys are generated by direct calls of invoke, as the
\* setup helpers do.
AuthSettings == {NoSetting, "internal", "passthrough", "Passthrough"}

InitAuth ==
    /\ pointers = <<>>
    /\ relationships = {}
    /\ connections = <<>>
    /\ federations = <<>>
    /\ last = Response(BlankQuery, NULL, NULL, FALSE)
    /\ NoRace
    /\ audit_log = <<>>
    /\ access_keys = <<>>
    /\ domains = {}
    /\ config \in [authentication_mode : AuthSettings]
    /\ http = NoExchange
    /\ report_cache = NoCache
    /\ report = NoReport
    /\ run = NoRun

AuthTokens ==
    { Jwt(s, e, k) : s \in BOOLEAN, e \in BOOLEAN, k \in 0..MaxKeys }
        \cup {Garbage}
AuthHeaders ==
    {<<>>, <<Bearer>>, <<Bearer, EmptyWord>>,
     <<Bearer, EmptyWord, Jwt(TRUE, FALSE, 1)>>, <<Basic, Jwt(TRUE, FALSE, 1)>>}
        \cup { <<Bearer, t>> : t \in AuthTokens }
AuthRequests ==
    { [authorization |-> h, sealed |-> TRUE, action |-> "get_graph_stats",
       key_to_revoke |-> 0] : h \in AuthHeaders }
    \cup { [authorization |-> <<Bearer, Jwt(TRUE, FALSE, k)>>, sealed |-> s,
            action |-> "revoke_access_key", key_to_revoke |-> r] :
                k \in 1..MaxKeys, r \in 1..MaxKeys, s \in BOOLEAN }

NextAuth ==
    /\ \/ /\ GenerateAccessKey("dom_a", <<"list", {"admin_domain", "read_write"}>>)
          /\ http' = NoExchange
       \/ \E request \in AuthRequests : HandleInvocation(request)
    /\ Len(access_keys') <= MaxKeys
    /\ UNCHANGED <<race, run, audit_log, config, report_cache, report>>

SpecAuth == InitAuth /\ [][NextAuth]_vars

\* The proxy with credential pointers.  create_pointer stores the target and
\* the credential blobs; the link from a target to its credential pointer is
\* written into the pointers table outside the handlers.
LinkCredential(pointer_address, credential_pointer_address) ==
    /\ pointer_address \in DOMAIN pointers
    /\ pointers' = [pointers EXCEPT ![pointer_address].credential_pointer_address
                                        = credential_pointer_address]
    /\ last' = Response(BlankQuery, NULL, NULL, FALSE)
    /\ UNCHANGED <<relationships, connections, federations>>

ProxyOutcomes == {"ok", "network_error", "error_status", "bad_body"}
ProxyTarget == "https://a.test/r"
ProxyReferences ==
    {ProxyTarget, "enc:s1", "enc:s1\n", "enc:token-only:s1", "garbled"}
ProxyCallers == {Admin("dom_a"), NoAuth}

NextProxy ==
    /\ \/ CreateConnection(TRUE, "dom_a", FALSE)
       \/ \E d \in ProxyReferences :
            CreatePointer(d, NoCoord, NoCoord, NoCoord,
                          IF d = ProxyTarget THEN 1 ELSE 0)
       \/ \E p \in DOMAIN pointers, c \in 1..ProxyPointers + 1 :
            /\ pointers[p].data_reference = ProxyTarget
            /\ c # p
            /\ LinkCredential(p, c)
       \/ \E a \in ProxyCallers, c \in 0..ProxyConnections,
              p \in 0..ProxyPointers, e \in ProxyOutcomes :
            InvokeThroughConnection(a, c, p, e)
    /\ Len(pointers') <= ProxyPointers
    /\ Len(connections') <= ProxyConnections
    /\ UNCHANGED <<race, run, rest>>

SpecProxy == Init /\ [][NextProxy]_vars

\* The handlers that write the store, each with the audit entries it logs.
AuditCallers == {DirectAdmin, Admin("dom_a")}

NextAudit ==
    /\ \/ /\ \/ \E d \in {"https://a.test/r", "https://b.test/r"} :
                    CreatePointer(d, NoCoord, NoCoord, NoCoord, 0)
             \/ AddNeighbor(1, 2, "friend", 100)
             \/ CreateConnection(TRUE, "dom_a", FALSE)
             \/ AssignPointerToConnection(Admin("dom_a"), 1, 1)
             \/ SetConnectionStatus(Admin("dom_a"), 1, "disabled")
             \/ InitiateFederation(Admin("dom_a"), "dom_b", <<"read_pointers">>)
             \/ AcceptFederation(Admin("dom_b"), 1)
             \/ RevokeFederation(Admin("dom_a"), 1)
             \/ \E a \in AuditCallers :
                    InvokeUnregistered("clear_audit_log", a, FALSE)
          /\ UNCHANGED <<access_keys, domains>>
       \/ CreateDomain("alpha", "dom_a")
       \/ GenerateAccessKey("dom_a", <<"list", {"admin_domain", "read_write"}>>)
       \/ RevokeAccessKey([Admin("dom_a") EXCEPT !.key = 1], 2)
    /\ audit_log' = WriteAudit(last')
    /\ Len(audit_log') <= MaxAudit
    /\ Len(connections') <= AccessConnections
    /\ Len(federations') <= AccessFederations
    /\ Len(access_keys') <= MaxKeys
    /\ LatestModified(Len(pointers))' <= MaxClock
    /\ UNCHANGED <<race, run, config, http, report_cache, report>>

SpecAudit == Init /\ [][NextAudit]_vars

\* What invoke gives back: handlers that return an envelope and handlers
\* that raise.
NextEnvelope ==
    /\ \/ /\ \/ \E d \in DataReferences, xyz \in CoordInputs :
                    CreatePointer(d, xyz[1], xyz[2], xyz[3], 0)
             \/ \E p \in 0..EdgePointers : ExecuteCreationModel(p)
             \/ \E p \in 0..EdgePointers : GetNeighbors(p)
             \/ GetGraphStats
             \/ \E n \in {"", "get_all_tags", "no_such_action"} :
                    InvokeUnregistered(n, NoAuth, FALSE)
          /\ UNCHANGED <<access_keys, domains>>
       \/ \E n \in DomainNames, d \in AdminDomains : CreateDomain(n, d)
       \/ \E a \in {Admin("dom_a"), Member("dom_a")} : GetDomainDetails(a)
    /\ Len(pointers') <= EdgePointers
    /\ UNCHANGED <<race, run, audit_log, config, http, report_cache, report>>

SpecEnvelope == Init /\ [][NextEnvelope]_vars

\* Writes to the pointers table: creations, connections, assignments by
\* owners and strangers, and edges.
FramePointers == 3
FrameCallers == {Admin("dom_b"), Member("dom_a")}

NextFrame ==
    /\ \/ \E d \in ProximityReferences :
            CreatePointer(d, NoCoord, NoCoord, NoCoord, 0)
       \/ CreateConnection(TRUE, "dom_b", TRUE)
       \/ \E a \in FrameCallers, p \in 1..FramePointers,
              c \in 1..ProxyConnections :
            AssignPointerToConnection(a, p, c)
       \/ \E a \in 1..FramePointers, b \in 1..FramePointers :
            AddNeighbor(a, b, "friend", 100)
    /\ Len(pointers') <= FramePointers
    /\ Len(connections') <= ProxyConnections
    /\ LatestModified(Len(pointers))' <= FramePointers + 1
    /\ UNCHANGED <<race, run, rest>>

SpecFrame == Init /\ [][NextFrame]_vars

\* Search by description and tags: pointers with every description and tag
\* list, searched with every term, include list, exclude list and mode.
Descriptions == {<<>>, <<"a", "b">>}
TagLists ==
    {<<>>, << <<"R">> >>, << <<"r", "b">> >>, << <<"r">>, <<"b">> >>}
SearchTerms == {<<>>, <<"b">>}
IncludeLists == {<<>>, << <<"r">> >>, << <<"r">>, <<"b">> >>}
ExcludeLists == {<<>>, << <<"b">> >>}
MatchModes == {"ALL", "any", "SOME"}

NextSearch ==
    /\ \/ \E d \in DataReferences, s \in Descriptions, t \in TagLists :
            HandleCreatePointer([BlankQuery EXCEPT !.action = "create_pointer",
                                                   !.data_reference = d,
                                                   !.description = s,
                                                   !.tags = t])
       \/ \E s \in SearchTerms, t \in IncludeLists, e \in ExcludeLists,
              m \in MatchModes :
            SearchPointers(s, t, e, m)
    /\ Len(pointers') <= MaxPointers
    /\ UNCHANGED <<race, run, rest>>

SpecSearch == Init /\ [][NextSearch]_vars

\* Racing creations: every caller creates one pointer while the others
\* create theirs and a reader asks for the graph statistics.
InitCreate ==
    /\ pointers = <<>>
    /\ relationships = {}
    /\ connections = <<>>
    /\ federations = <<>>
    /\ last = Response(BlankQuery, NULL, NULL, FALSE)
    /\ pc = [c \in 1..NumCallers |-> "idle"]
    /\ rowcount = [c \in 1..NumCallers |-> 0]
    /\ racer = [c \in 1..NumCallers |-> [query |-> BlankQuery, address |-> 0]]
    /\ result = [c \in 1..NumCallers |-> NULL]
    /\ NoRest
    /\ run = NoRun

NextCreate ==
    \/ /\ \E c \in 1..NumCallers :
            \/ \E d \in DataReferences : CreateBegin(c, d)
            \/ CreateInsert(c)
            \/ CreateCommit(c)
            \/ CreateGyroid(c)
            \/ CreateSettle(c)
            \/ CreateReply(c)
       /\ UNCHANGED <<run, rest>>
    \/ /\ GetGraphStats
       /\ UNCHANGED <<race, run, rest>>

SpecCreate == InitCreate /\ [][NextCreate]_vars

\* Racing revocations: MaxKeys keys of two domains, admin or not, and one
\* revoke_access_key request per caller, each under a key and against a key.
KeyPermissions == {{"admin_domain", "read_write"}, {"read_write"}}

InitRevoke ==
    /\ pointers = <<>>
    /\ relationships = {}
    /\ connections = <<>>
    /\ federations = <<>>
    /\ last = Response(BlankQuery, NULL, NULL, FALSE)
    /\ pc = [c \in 1..NumCallers |-> "idle"]
    /\ rowcount = [c \in 1..NumCallers |-> 0]
    /\ racer = [c \in 1..NumCallers |->
                    [auth_context |-> NoAuth, key_to_revoke |-> 0]]
    /\ result = [c \in 1..NumCallers |-> NULL]
    /\ audit_log = <<>>
    /\ \E d \in [1..MaxKeys -> AdminDomains], p \in [1..MaxKeys -> KeyPermissions] :
          access_keys = [k \in 1..MaxKeys |->
                            [key |-> k, domain_id |-> d[k],
                             permissions |-> p[k], live |-> TRUE]]
    /\ domains = {}
    /\ config = [authentication_mode |-> NoSetting]
    /\ http = NoExchange
    /\ report_cache = NoCache
    /\ report = NoReport
    /\ run = NoRun

NextRevoke ==
    /\ \E c \in 1..NumCallers :
          \/ \E k \in 1..MaxKeys, r \in 0..MaxKeys : RevokeEnter(c, k, r)
          \/ RevokeCheck(c)
          \/ RevokeDelete(c)
          \/ RevokeReply(c)
    /\ UNCHANGED run

SpecRevoke == InitRevoke /\ [][NextRevoke]_vars

\* The report cache: requests for every type at the readings of the clock
\* around one and two lifetimes of an entry, the clock never running back,
\* against an upstream that answers or fails.
ClockReadings ==
    {0, 1, CACHE_TTL_SECONDS - 1, CACHE_TTL_SECONDS, CACHE_TTL_SECONDS + 1,
     2 * CACHE_TTL_SECONDS - 1, 2 * CACHE_TTL_SECONDS}

NextReport ==
    /\ \E api_type \in ReportTypes, current_time \in ClockReadings,
          upstream \in UpstreamOutcomes :
            /\ current_time >= report.current_time
            /\ GenerateReport(api_type, current_time, upstream)
    /\ UNCHANGED <<store, last, race, run, audit_log, access_keys, domains,
                   config, http>>

SpecReport == Init /\ [][NextReport]_vars

\* Connections and their status, without federations.
ConnCallers == {Admin("dom_a"), Admin("dom_b"), Member("dom_b"), NoAuth}

NextConn ==
    /\ \/ \E d \in {"", "https://a.test/r"}, c \in 0..AccessConnections :
            CreatePointer(d, NoCoord, NoCoord, NoCoord, c)
       \/ \E n \in BOOLEAN, d \in {"dom_a", "dom_b"} :
            CreateConnection(n, d, FALSE)
       \/ \E a \in ConnCallers, c \in 0..AccessConnections,
              st \in {"active", "disabled", "paused"} :
            SetConnectionStatus(a, c, st)
       \/ \E a \in ConnCallers, p \in 0..AccessPointers,
              c \in 0..AccessConnections :
            AssignPointerToConnection(a, p, c)
       \/ \E a \in ConnCallers, p \in 0..AccessPointers,
              c \in 0..AccessConnections, e \in ExternalOutcomes :
            InvokeThroughConnection(a, c, p, e)
    /\ Len(pointers') <= AccessPointers
    /\ Len(connections') <= AccessConnections
    /\ UNCHANGED <<race, run, rest>>

SpecConn == Init /\ [][NextConn]_vars

(* ------------------------------ claims -------------------------------- *)
Linked(domain_a, domain_b, table) ==
    \E i \in DOMAIN table :
        /\ table[i].status = "accepted"
        /\ {table[i].source_domain_id, table[i].target_domain_id}
                = {domain_a, domain_b}

\* C1: no two distinct pointers share a data_reference, and a create_pointer
\* whose data_reference already belongs to a pointer returns an error and
\* leaves pointers and relationships unchanged.
C1_UniqueDataReference ==
    [][ /\ \A a \in DOMAIN pointers' : \A b \in DOMAIN pointers' :
              a # b => pointers'[a].data_reference # pointers'[b].data_reference
        /\ ( /\ last'.query.action = "create_pointer"
             /\ \E a \in DOMAIN pointers :
                    pointers[a].data_reference = last'.query.data_reference )
            => /\ last'.status = "error"
               /\ pointers' = pointers
               /\ relationships' = relationships ]_vars

C1_Witness ==
    /\ last.query.action = "create_pointer"
    /\ last.status = "error"
    /\ \E a \in DOMAIN pointers :
            pointers[a].data_reference = last.query.data_reference
    /\ Len(pointers) = 2

AllDone == \A c \in 1..NumCallers : pc[c] = "done"

AllTargetAdmins ==
    \A c \in 1..NumCallers :
        /\ IsAdmin(racer[c].auth_context)
        /\ racer[c].request_key = federations[1].request_key
        /\ racer[c].auth_context.domain_id = federations[1].target_domain_id

Winners == { c \in 1..NumCallers : result[c] = "success" }

\* C2: when every racing caller is an admin of the target domain and passes
\* the same pending request_key, exactly one accept_federation call returns
\* success and every other returns an error, whatever the interleaving.
C2_ExactlyOneAccept ==
    /\ Cardinality(Winners) <= 1
    /\ (AllDone /\ AllTargetAdmins)
        => /\ Cardinality(Winners) = 1
           /\ \A c \in 1..NumCallers \ Winners : result[c] = "error"

C2_Witness ==
    AllDone /\ AllTargetAdmins /\ Cardinality(Winners) = 1

LegalTransition(old, new) ==
    \/ old = new
    \/ old = "pending" /\ new \in {"accepted", "rejected"}
    \/ old = "accepted" /\ new = "revoked"

\* C3: a federation record's status changes only along pending->accepted,
\* pending->rejected or accepted->revoked; rejected and revoked are final and
\* revoke never moves a pending or rejected record to revoked.
C3_StatusMachine ==
    [][ \A i \in DOMAIN federations :
            LegalTransition(federations[i].status, federations'[i].status) ]_vars

\* C4: accept_federation succeeds only for an admin of the target domain of
\* an existing pending request with that key; otherwise it returns an error
\* and no federation record changes.
C4_AcceptGuard ==
    [][ last'.query.action = "accept_federation" =>
          LET q == last'.query
              ok == /\ IsAdmin(q.auth_context)
                    /\ \E i \in DOMAIN federations :
                          /\ federations[i].request_key = q.request_key
                          /\ federations[i].status = "pending"
                          /\ federations[i].target_domain_id
                                = q.auth_context.domain_id
          IN  /\ last'.status = "success" => ok
              /\ ~ok => (last'.status = "error" /\ federations' = federations)
      ]_vars

C4_Witness ==
    /\ last.query.action = "accept_federation"
    /\ last.status = "error"
    /\ IsAdmin(last.query.auth_context)
    /\ \E i \in DOMAIN federations :
          /\ federations[i].request_key = last.query.request_key
          /\ federations[i].status = "accepted"
          /\ federations[i].target_domain_id = last.query.auth_context.domain_id

AccessActions ==
    {"assign_pointer_to_connection", "invoke_through_connection",
     "get_pointers_for_connection"}

\* C5: assign_pointer_to_connection, invoke_through_connection and
\* get_pointers_for_connection succeed only for a caller whose domain owns
\* the connection or is linked to its owner by an accepted federation; any
\* other caller is refused and the store is unchanged.
C5_AccessBoundary ==
    [][ last'.query.action \in AccessActions =>
          LET q == last'.query
              c == q.connection_id
              entitled ==
                /\ c \in DOMAIN connections
                /\ \/ connections[c].domain_id = q.auth_context.domain_id
                   \/ Linked(q.auth_context.domain_id, connections[c].domain_id,
                             federations)
          IN  /\ last'.status # "error" => entitled
              /\ ~entitled => (last'.status = "error" /\ UNCHANGED store)
      ]_vars

C5_Witness ==
    /\ last.query.action = "invoke_through_connection"
    /\ last.message = "denied"
    /\ last.query.auth_context.domain_id = "dom_a"
    /\ last.query.connection_id \in DOMAIN connections
    /\ last.query.pointer_address \in DOMAIN pointers
    /\ \E i \in DOMAIN federations : federations[i].status = "revoked"

\* C6: a caller whose domain owns an active connection assigns an existing
\* pointer to it: assign_pointer_to_connection returns success and the
\* pointer's connection_id is that connection.
C6_OwnerAssigns ==
    ( /\ last.query.action = "assign_pointer_to_connection"
      /\ last.query.pointer_address \in DOMAIN pointers
      /\ last.query.connection_id \in DOMAIN connections
      /\ connections[last.query.connection_id].status = "active"
      /\ connections[last.query.connection_id].domain_id
            = last.query.auth_context.domain_id )
    => /\ last.status = "success"
       /\ pointers[last.query.pointer_address].connection_id
            = last.query.connection_id

\* C7: every invoke_through_connection on a disabled connection is refused
\* and makes no outbound call, for every caller.
C7_DisabledRejects ==
    ( /\ last.query.action = "invoke_through_connection"
      /\ last.query.connection_id \in DOMAIN connections
      /\ connections[last.query.connection_id].status = "disabled" )
    => (last.status = "error" /\ ~last.outbound)

ReadOnlyLinked(domain_a, domain_b) ==
    /\ Linked(domain_a, domain_b, federations)
    /\ \A i \in DOMAIN federations :
          ( /\ federations[i].status = "accepted"
            /\ {federations[i].source_domain_id, federations[i].target_domain_id}
                  = {domain_a, domain_b} )
          => federations[i].permissions = <<"read_pointers">>

C9_RevokeSevers ==
    [][ ( /\ last'.query.action = "revoke_federation"
          /\ last'.status = "success"
          /\ last'.query.federation_id \in DOMAIN federations
          /\ federations[last'.query.federation_id].status = "accepted" )
        => LET f == federations[last'.query.federation_id]
           IN  /\ ~Linked(f.source_domain_id, f.target_domain_id, federations')
               /\ ~Linked(f.target_domain_id, f.source_domain_id, federations')
      ]_vars

Keys(table) == { table[i].request_key : i \in DOMAIN table }

\* C10: initiate_federation appends a pending record with a fresh request_key
\* only for an admin whose target differs from the caller's domain; otherwise
\* it returns an error and creates nothing.  No record has source equal to
\* target and all request_keys are distinct.
C10_InitiateGuard ==
    [][ /\ \A i \in DOMAIN federations' :
              federations'[i].source_domain_id # federations'[i].target_domain_id
        /\ \A i \in DOMAIN federations' : \A j \in DOMAIN federations' :
              i # j => federations'[i].request_key # federations'[j].request_key
        /\ last'.query.action = "initiate_federation" =>
              LET q == last'.query
                  ok == /\ IsAdmin(q.auth_context)
                        /\ q.target_domain_id # NULL
                        /\ q.target_domain_id # q.auth_context.domain_id
                  n == Len(federations')
              IN  /\ last'.status = "success" => ok
                  /\ ~ok => (last'.status = "error" /\ federations' = federations)
                  /\ last'.status = "success" =>
                        /\ n = Len(federations) + 1
                        /\ SubSeq(federations', 1, n - 1) = federations
                        /\ federations'[n].status = "pending"
                        /\ federations'[n].source_domain_id = q.auth_context.domain_id
                        /\ federations'[n].target_domain_id = q.target_domain_id
                        /\ federations'[n].request_key = q.request_key
                        /\ federations'[n].request_key \notin Keys(federations)
      ]_vars

C10_Witness ==
    /\ last.query.action = "initiate_federation"
    /\ last.status = "success"
    /\ Len(federations) = 2

\* C11: revoke_federation succeeds only for a caller with admin_domain whose
\* domain is the source or the target of the named federation; a
\* non-participant, a non-admin or an unknown federation_id gets an error and
\* no federation record changes.
C11_RevokeGuard ==
    [][ last'.query.action = "revoke_federation" =>
          LET q == last'.query
              f == q.federation_id
              ok == /\ IsAdmin(q.auth_context)
                    /\ f \in DOMAIN federations
                    /\ q.auth_context.domain_id \in
                          {federations[f].source_domain_id,
                           federations[f].target_domain_id}
          IN  /\ last'.status = "success" => ok
              /\ ~ok => (last'.status = "error" /\ federations' = federations)
      ]_vars

C11_Witness ==
    /\ last.query.action = "revoke_federation"
    /\ last.status = "error"
    /\ IsAdmin(last.query.auth_context)
    /\ last.query.federation_id \in DOMAIN federations
    /\ last.query.auth_context.domain_id \notin
          {federations[last.query.federation_id].source_domain_id,
           federations[last.query.federation_id].target_domain_id}
    /\ federations[last.query.federation_id].status = "accepted"

\* C12: after add_neighbor(a,b,label,weight) returns success, get_neighbors(a)
\* contains b, get_neighbors(b) contains a, and the two entries carry the same
\* label and the same weight, whatever operations came before.
C12_NeighborsSymmetric ==
    [][ (last'.query.action = "add_neighbor" /\ last'.status = "success") =>
          LET a == last'.query.pointer_address
              b == last'.query.neighbor_address
              of_a == { e \in NeighborsIn(relationships', a) : e.address = b }
              of_b == { e \in NeighborsIn(relationships', b) : e.address = a }
          IN  /\ of_a # {}
              /\ of_b # {}
              /\ \A ea \in of_a : \A eb \in of_b :
                    /\ ea.relationship = eb.relationship
                    /\ ea.weight = eb.weight
      ]_vars

NoDuplicatePairs(rows) ==
    \A r \in rows : \A t \in rows :
        ( /\ r.pointer_a_address = t.pointer_a_address
          /\ r.pointer_b_address = t.pointer_b_address ) => r = t

\* C13: a second add_neighbor(a,b,...) right after a successful one returns
\* success and leaves the relationship rows exactly as they were; no two rows
\* ever share a pair (a,b).
C13_AddNeighborIdempotent ==
    [][ /\ NoDuplicatePairs(relationships')
        /\ ( /\ last.query.action = "add_neighbor"
             /\ last.status = "success"
             /\ last'.query.action = "add_neighbor"
             /\ last'.query.pointer_address = last.query.pointer_address
             /\ last'.query.neighbor_address = last.query.neighbor_address )
            => /\ last'.status = "success"
               /\ relationships' = relationships
      ]_vars

C13_Witness ==
    /\ last.query.action = "add_neighbor"
    /\ last.status = "success"
    /\ \E r \in relationships :
          /\ r.pointer_a_address = last.query.pointer_address
          /\ r.pointer_b_address = last.query.neighbor_address
          /\ r.weight[1] = "real"
          /\ r.weight # Real(last.query.weight)

\* C14: add_neighbor(a,b) returns an error and changes neither relationships
\* nor any pointer's last_modified when a or b is not an existing pointer; on
\* success both endpoints carry the new last_modified.
C14_AddNeighborEndpoints ==
    [][ last'.query.action = "add_neighbor" =>
          LET a == last'.query.pointer_address
              b == last'.query.neighbor_address
          IN  /\ (a \notin DOMAIN pointers \/ b \notin DOMAIN pointers)
                    => /\ last'.status = "error"
                       /\ relationships' = relationships
                       /\ DOMAIN pointers' = DOMAIN pointers
                       /\ \A p \in DOMAIN pointers :
                             pointers'[p].last_modified = pointers[p].last_modified
              /\ last'.status = "success"
                    => /\ pointers'[a].last_modified = pointers'[b].last_modified
                       /\ \A p \in DOMAIN pointers :
                             pointers'[a].last_modified > pointers[p].last_modified
      ]_vars

C14_Witness ==
    /\ last.query.action = "add_neighbor"
    /\ last.message = "not_found"
    /\ last.query.pointer_address \in DOMAIN pointers
    /\ last.query.neighbor_address \notin DOMAIN pointers
    /\ \E p \in DOMAIN pointers : pointers[p].last_modified > Len(pointers)

LinkedPairs(rows) ==
    { {r.pointer_a_address, r.pointer_b_address} : r \in rows }

\* C15: every relationship row (a,b) has a row (b,a) with the same label and
\* weight, so the number of rows is even and total_relationships of
\* get_graph_stats equals the number of linked unordered pairs.
C15_TwoRowsPerEdge ==
    /\ \A r \in relationships : \E t \in relationships :
          /\ t.pointer_a_address = r.pointer_b_address
          /\ t.pointer_b_address = r.pointer_a_address
          /\ t.relationship = r.relationship
          /\ t.weight = r.weight
    /\ Cardinality(relationships) % 2 = 0
    /\ GraphStats.total_relationships = Cardinality(LinkedPairs(relationships))

IndexToken(i) == CASE i = 0 -> "0" [] i = 1 -> "1" [] OTHER -> "9"

\* C18: a parameter "{results.i.k}" is replaced by field k of the i-th
\* accumulated result; "{results.0.address}" after a first result
\* {address: "ptr_1"} becomes the literal "ptr_1".
C18_PlaceholderResolves ==
    run.phase = "output" =>
        \A i \in 0..(Len(run.results) - 1) :
            LET payload == run.results[i + 1]
            IN  \A k \in DOMAIN payload.keys :
                  ( /\ payload.kids[k].t = "str"
                    /\ run.action.pointer_address =
                          Placeholder(<<"results", ".", IndexToken(i), ".",
                                        payload.keys[k]>>) )
                  => /\ ~run.out.raised
                     /\ run.out.action.pointer_address = payload.kids[k].text

UnresolvedTexts ==
    { Placeholder(<<"results", ".", "9", ".", "x">>),
      Placeholder(<<"9", ".", "x">>),
      Placeholder(<<"0", ".", "missing">>),
      Placeholder(<<"0", ".", "address", ".", "x">>),
      Placeholder(<<>>) }

\* C19: substitution never raises, and a parameter whose path resolves to
\* nothing (index out of range, missing key, indexing into a non-container,
\* malformed expression) keeps its placeholder text.
C19_SubstitutionNeverRaises ==
    run.phase = "output" =>
        /\ ~run.out.raised
        /\ run.action.pointer_address \in UnresolvedTexts
              => run.out.action.pointer_address = run.action.pointer_address

\* C16: a circuit hands its steps to the handlers in list order; step i is
\* handed over only after every earlier step returned success, with an
\* accumulator holding exactly their results in order; after a step that
\* fails or names an unknown or missing action no later step is handed over.
C16_CircuitOrder ==
    [][ /\ \A k \in DOMAIN run'.log :
              /\ run'.log[k].index = k
              /\ Len(run'.log[k].accumulator) = k - 1
              /\ \A j \in 1..(k - 1) :
                    /\ run'.log[j].status = "success"
                    /\ run'.log[k].accumulator[j] = run'.log[j].payload
        /\ run.phase = "returning" => run'.log = run.log
      ]_vars

C16_Witness ==
    /\ run.phase = "done"
    /\ Len(run.definition) = 3
    /\ Len(run.log) = 2
    /\ run.log[2].status = "error"

\* C17: when a step of a circuit run by invoke_through_connection returns a
\* status other than success, the reply to the caller is that failure: its
\* status is not success and it carries the results of the earlier steps.
C17_CircuitFailureReply ==
    ( /\ run.phase = "done"
      /\ last.query.action = "invoke_through_connection"
      /\ Len(run.log) > 0
      /\ run.log[Len(run.log)].status # "success" )
    => /\ last.status # "success"
       /\ run.returned.results = run.results

\* C20 as stated: invoke with an action no handler is registered for, or
\* with no action, returns an error and leaves the store unchanged.
C20_UnknownAction ==
    [][ last'.query.action \notin (Actions \cup {"none"})
            => (last'.status = "error" /\ UNCHANGED store) ]_vars

\* C20, amended: invoke with no action, or with an action that is neither
\* registered nor served by the fallback chain, returns an error; no query
\* with an unregistered action changes the store.
C20_UnknownActionAmended ==
    [][ /\ last'.query.action \notin (Actions \cup {"none"})
            => UNCHANGED store
        /\ last'.query.action \notin (Actions \cup FallbackNames \cup {"none"})
            => last'.status = "error" ]_vars

C20_Witness ==
    /\ last.query.action = "bogus"
    /\ last.status = "error"
    /\ Len(pointers) > 0

\* Squared distance between two stored pointers, in hundredths squared.
Distance2(a, b) ==
    (pointers[a].x - pointers[b].x) * (pointers[a].x - pointers[b].x)
        + (pointers[a].y - pointers[b].y) * (pointers[a].y - pointers[b].y)
        + (pointers[a].z - pointers[b].z) * (pointers[a].z - pointers[b].z)

\* C30: search_by_proximity(origin, radius) lists exactly the pointers other
\* than the origin whose squared distance to the origin's stored coordinates
\* is at most the radius squared; a radius of 0 is accepted; an origin that
\* does not exist is answered with an error.
C30_ProximityExact ==
    LET q == last.query
    IN  (q.action = "search_by_proximity"
            /\ q.origin_pointer_address # 0 /\ q.radius # NoRadius)
        => IF Exists(pointers, q.origin_pointer_address)
           THEN /\ last.status = "success"
                /\ last.found =
                     { a \in DOMAIN pointers \ {q.origin_pointer_address} :
                         Distance2(a, q.origin_pointer_address)
                            <= q.radius * q.radius }
           ELSE last.status = "error" /\ last.found = {}

\* An origin at (0,0,0) searched with radius 5 while one pointer is at
\* (3,0,0) and another at (10,0,z): the first is listed, the second is not.
C30_Witness ==
    /\ last.query.action = "search_by_proximity"
    /\ last.query.radius = 500
    /\ last.status = "success"
    /\ LET o == last.query.origin_pointer_address
       IN  /\ pointers[o].x = 0 /\ pointers[o].y = 0 /\ pointers[o].z = 0
           /\ \E a \in last.found :
                pointers[a].x = 300 /\ pointers[a].y = 0 /\ pointers[a].z = 0
           /\ \E b \in DOMAIN pointers \ last.found :
                b # o /\ pointers[b].x = 1000

AdminActions ==
    {"revoke_access_key", "get_domain_details", "get_federation_status",
     "set_connection_status"}

\* C25: revoke_access_key, get_domain_details, get_federation_status and
\* set_connection_status answer access denied and change nothing when the
\* caller's permissions lack admin_domain, and they change and list only
\* keys, connections and federations of the caller's own domain.
C25_AdminOwnDomain ==
    [][ LET r == last'
            a == r.query.auth_context
        IN  r.query.action \in AdminActions =>
              /\ ~IsAdmin(a) =>
                    /\ r.status = "error" /\ r.message = "denied"
                    /\ r.disclosed = NoDisclosure
                    /\ UNCHANGED <<store, access_keys, domains>>
              /\ Len(access_keys') = Len(access_keys)
              /\ \A k \in DOMAIN access_keys :
                    access_keys'[k] # access_keys[k]
                        => access_keys[k].domain_id = a.domain_id
              /\ Len(connections') = Len(connections)
              /\ \A c \in DOMAIN connections :
                    connections'[c] # connections[c]
                        => connections[c].domain_id = a.domain_id
              /\ UNCHANGED <<pointers, relationships, federations, domains>>
              /\ \A c \in r.disclosed.connections :
                    connections[c].domain_id = a.domain_id
              /\ \A k \in r.disclosed.access_keys :
                    access_keys[k].live /\ access_keys[k].domain_id = a.domain_id
              /\ \A f \in r.disclosed.federations :
                    a.domain_id \in {federations[f].source_domain_id,
                                     federations[f].target_domain_id}
      ]_vars

\* An admin revoked a key of its own domain while a key of the other domain
\* stays in the store.
C25_Witness ==
    /\ last.query.action = "revoke_access_key"
    /\ last.status = "success"
    /\ ~access_keys[last.query.key_to_revoke].live
    /\ \E k \in DOMAIN access_keys :
            /\ access_keys[k].live
            /\ access_keys[k].domain_id # last.query.auth_context.domain_id

\* The token of a request's Authorization header passes every test of
\* internal mode against the access keys as they are.
GoodToken(request) ==
    /\ Len(request.authorization) >= 2
    /\ LET token == request.authorization[2]
       IN  /\ token.kind = "jwt" /\ token.signed /\ ~token.expired
           /\ token.access_key \in DOMAIN access_keys
           /\ access_keys[token.access_key] # NoKey

C24_ExplicitPassthrough ==
    [][ http'.handled =>
            /\ http'.request.authorization # <<>>
            /\ config.authentication_mode # "passthrough"
                    => GoodToken(http'.request)
      ]_vars

\* Without an authentication_mode setting a request whose token is unsigned
\* was answered 401.
C24_Witness ==
    /\ config.authentication_mode = NoSetting
    /\ http.code = 401 /\ ~http.handled
    /\ Len(http.request.authorization) = 2
    /\ http.request.authorization[2].kind = "jwt"
    /\ ~http.request.authorization[2].signed

\* The request health_check.py and example_client.py send: a signed,
\* unexpired token whose payload is app_id and exp, and the encrypted query
\* {action: get_graph_stats}.
HealthCheckRequest ==
    [authorization |-> <<Bearer, Jwt(TRUE, FALSE, 0)>>, sealed |-> TRUE,
     action |-> "get_graph_stats", key_to_revoke |-> 0]

\* C23: the request of the bundled health check and example client is
\* authenticated and answered with status success.
C23_HealthCheckPasses ==
    [][ http'.request = HealthCheckRequest =>
            http'.handled /\ http'.code = 200 /\ http'.status = "success"
      ]_vars

\* C26: a failed outbound call of invoke_through_connection is answered with
\* status interpretation_rendered and details of the attempt, never with an
\* error or an exception, and an invocation makes at most one outbound call.
C26_FailureRendered ==
    [][ LET r == last'
        IN  r.query.action = "invoke_through_connection" =>
              /\ r.status # "raised"
              /\ Len(r.sent) <= 1
              /\ (r.sent # <<>> /\ r.sent[1].external # "ok") =>
                    /\ r.status = "interpretation_rendered"
                    /\ r.details # <<>>
                    /\ Len(r.sent) = 1
      ]_vars

\* The body of the one response fetched could not be parsed.
C26_Witness ==
    /\ last.query.action = "invoke_through_connection"
    /\ last.status = "interpretation_rendered"
    /\ Len(last.sent) = 1
    /\ last.sent[1].external = "bad_body"

\* What the caller receives of a reply.
Visible(reply) ==
    [status |-> reply.status, message |-> reply.message,
     details |-> reply.details]

\* The credential blobs that differ from credential_reference in the token
\* value only: same keys, same header name, and a token value the HTTP
\* client treats alike.
CredentialBlobs ==
    {"enc:s1", "enc:s2", "enc:s1\n", "enc:s2\n", "enc:token-only:s1",
     "enc:token-only:s2", "garbled"}
SameButToken(credential_reference) ==
    LET Shape(c) == [raises |-> Decrypt(c).raises, keys |-> Decrypt(c).keys,
                     header |-> Decrypt(c).header,
                     legal |-> LegalHeaderValue(Decrypt(c).token)]
    IN  { c \in CredentialBlobs : Shape(c) = Shape(credential_reference) }

\* C27: the response of invoke_through_connection through a linked
\* credential pointer is the same for every token value of the credential,
\* given the same outcome of the outbound call.
C27_CredentialHidden ==
    [][ LET r == last'
            q == r.query
            row == pointers[q.pointer_address]
            cred_ptr_address == row.credential_pointer_address
        IN  ( /\ q.action = "invoke_through_connection"
              /\ InvokeRefusal(q.auth_context, q.connection_id,
                               q.pointer_address) = "none"
              /\ cred_ptr_address \in DOMAIN pointers ) =>
                \A c \in SameButToken(pointers[cred_ptr_address].data_reference),
                   e \in ProxyOutcomes :
                    (r.sent = <<>> \/ r.sent[1].external = e) =>
                        Visible(Proxy(q, row.data_reference, TRUE, TRUE, c, e))
                            = Visible(r)
      ]_vars

\* C28: no step of invoke deletes or changes an entry of the audit log: the
\* log before the step is the beginning of the log after it.
C28_AppendOnly ==
    [][ /\ Len(audit_log) <= Len(audit_log')
        /\ \A i \in DOMAIN audit_log : audit_log'[i] = audit_log[i]
      ]_vars

\* C29: every handler that returns success and has changed the pointers,
\* relationships, connections, federations, domains or access keys has
\* added an entry to the audit log.
C29_ChangesLogged ==
    [][ (last'.status = "success"
            /\ <<store, access_keys, domains>>' # <<store, access_keys, domains>>)
                => Len(audit_log') > Len(audit_log)
      ]_vars

\* C21: whatever invoke was called with, it returned an envelope whose
\* status is success, error or interpretation_rendered and that carries a
\* message or a result.
C21_Envelope ==
    last.query.action # "none" =>
        /\ last.status \in {"success", "error", "interpretation_rendered"}
        /\ last.message # NULL

CreatedPointer == pointers'[Len(pointers')]

CreateSucceeded ==
    /\ last'.query.action = "create_pointer"
    /\ last'.status = "success"

\* C32: every pointer a successful create_pointer produces has z = 0 at its
\* creation, whether or not the query carried coordinates.
C32_ZStartsAtZero ==
    [][ CreateSucceeded => CreatedPointer.z = 0 ]_vars

\* C33: after a successful create_pointer of p, every other pointer q has a
\* gyroid_related row between p and q whose weight is the gyroid score of
\* their coordinate deltas, and every row the call adds has p as an endpoint.
C33_GyroidRowsOfNewPointer ==
    [][ CreateSucceeded =>
          LET p == Len(pointers')
          IN  /\ \A q \in DOMAIN pointers' \ {p} :
                    \E r \in relationships' :
                        /\ {r.pointer_a_address, r.pointer_b_address} = {p, q}
                        /\ r.relationship = "gyroid_related"
                        /\ r.weight =
                              GyroidScore(pointers'[p].x - pointers'[q].x,
                                          pointers'[p].y - pointers'[q].y,
                                          pointers'[p].z - pointers'[q].z)
              /\ \A r \in relationships' \ relationships :
                    p \in {r.pointer_a_address, r.pointer_b_address}
      ]_vars

C33_Witness ==
    /\ last.query.action = "create_pointer"
    /\ last.status = "success"
    /\ Len(pointers) = 3
    /\ Cardinality(relationships) = 3
    /\ \E r \in relationships :
          r.pointer_a_address = 3 /\ r.pointer_b_address = 1

SameBut(field, old, new) ==
    \A f \in DOMAIN old : f # field => new[f] = old[f]

\* C34: no operation changes the address or the data_reference of an existing
\* pointer; assign_pointer_to_connection changes only the named pointer's
\* connection_id, add_neighbor changes only last_modified of its two
\* endpoints and the relationship rows, and every other pointer is left as
\* it was by both.
C34_Frame ==
    [][ /\ \A a \in DOMAIN pointers :
              /\ a \in DOMAIN pointers'
              /\ pointers'[a].data_reference = pointers[a].data_reference
        /\ last'.query.action = "assign_pointer_to_connection" =>
              /\ DOMAIN pointers' = DOMAIN pointers
              /\ \A a \in DOMAIN pointers :
                    /\ SameBut("connection_id", pointers[a], pointers'[a])
                    /\ a # last'.query.pointer_address
                          => pointers'[a] = pointers[a]
              /\ UNCHANGED <<relationships, connections, federations>>
        /\ last'.query.action = "add_neighbor" =>
              /\ DOMAIN pointers' = DOMAIN pointers
              /\ \A a \in DOMAIN pointers :
                    /\ SameBut("last_modified", pointers[a], pointers'[a])
                    /\ a \notin {last'.query.pointer_address,
                                 last'.query.neighbor_address}
                          => pointers'[a] = pointers[a]
              /\ UNCHANGED <<connections, federations>>
      ]_vars

C34_Witness ==
    /\ last.query.action = "add_neighbor"
    /\ last.status = "success"
    /\ Len(pointers) = 3
    /\ last.query.pointer_address = 1
    /\ last.query.neighbor_address = 2
    /\ pointers[1].last_modified = pointers[2].last_modified
    /\ pointers[3].last_modified < pointers[1].last_modified

RECURSIVE Contains(_, _)
Contains(text, part) ==
    \/ /\ Len(part) <= Len(text)
       /\ \A i \in DOMAIN part : LowerChar(text[i]) = LowerChar(part[i])
    \/ text # <<>> /\ Contains(Tail(text), part)

Carries(a, tag) == tag \in JsonLoads(pointers[a].tags)

Range(list) == { list[i] : i \in DOMAIN list }

\* C31: search_pointers returns an error when neither a search term nor
\* include tags are given, or when tag_match_mode is neither ALL nor ANY;
\* otherwise it returns exactly the pointers that match the term, carry every
\* include tag in ALL mode or at least one in ANY mode, and carry none of the
\* exclude tags.
C31_SearchExact ==
    [][ last'.query.action = "search_pointers" =>
          LET q == last'.query
              mode == Upper(q.tag_match_mode)
          IN  IF \/ q.search_term = <<>> /\ q.search_tags = <<>>
                 \/ mode \notin {"ALL", "ANY"}
              THEN last'.status = "error"
              ELSE /\ last'.status = "success"
                   /\ last'.found =
                        { a \in DOMAIN pointers :
                            /\ q.search_term # <<>> =>
                                  Contains(pointers[a].description, q.search_term)
                            /\ (q.search_tags # <<>> /\ mode = "ALL") =>
                                  \A t \in Range(q.search_tags) : Carries(a, t)
                            /\ (q.search_tags # <<>> /\ mode = "ANY") =>
                                  \E t \in Range(q.search_tags) : Carries(a, t)
                            /\ \A t \in Range(q.exclude_tags) : ~Carries(a, t) }
      ]_vars

SameReference ==
    \A c \in 1..NumCallers :
        /\ racer[c].query.data_reference # ""
        /\ racer[c].query.data_reference = racer[1].query.data_reference

\* C35: when concurrent create_pointer calls carry the same data_reference,
\* exactly one pointer with it exists afterwards under every interleaving,
\* one call succeeds and every other is answered "already exists" rather
\* than with a storage failure.
C35_OneCreateWins ==
    (AllDone /\ SameReference) =>
        /\ Cardinality(PointerWithReference(racer[1].query.data_reference)) = 1
        /\ \E w \in 1..NumCallers :
              /\ result[w] = "success"
              /\ \A c \in 1..NumCallers \ {w} : result[c] = "exists"

\* Every write made on the shared connection has been committed.
NoPendingWrite == \A c \in 1..NumCallers : pc[c] \notin {"commit", "settle"}

Pairs(n) == (n * (n - 1)) \div 2

\* C36: pointer creation is atomic to other requests: no concurrent reader
\* observes a committed state in which a new pointer exists and its
\* gyroid_related rows do not.
C36_CreationAtomic ==
    [][ (last'.query.action = "get_graph_stats" /\ NoPendingWrite) =>
          Cardinality(relationships) = Pairs(last'.stats.total_pointers) ]_vars

StepDispatched == run.phase = "running" /\ Len(run'.log) > Len(run.log)

\* C37: every circuit step that checks authority is dispatched with the
\* auth_context of the caller who invoked the circuit, and an auth_context
\* embedded in a stored step never lets the step pass a check the caller's
\* own context would fail.
C37_CallerAuthority ==
    [][ (StepDispatched /\ last'.query.action = "set_connection_status") =>
          /\ last'.query.auth_context = run.query.auth_context
          /\ last'.status = "success" =>
                /\ IsAdmin(run.query.auth_context)
                /\ connections[last'.query.connection_id].domain_id
                      = run.query.auth_context.domain_id
      ]_vars

Attached(a) ==
    /\ pointers'[a].connection_id # 0
    /\ a \in DOMAIN pointers => pointers[a].connection_id # pointers'[a].connection_id

\* C38: a pointer gets connection_id c only from a caller whose domain owns c
\* or is federated with the owner of c: create_pointer with a connection_id is
\* held to the authorization of assign_pointer_to_connection.
C38_AttachAuthorized ==
    [][ \A a \in DOMAIN pointers' :
          Attached(a) =>
              LET c == pointers'[a].connection_id
              IN  /\ Exists(connections, c)
                  /\ Allowed(connections[c], last'.query.auth_context.domain_id)
      ]_vars

HasAdminKey(keys, d) ==
    \E k \in DOMAIN keys :
        keys[k].live /\ keys[k].domain_id = d /\ IsAdmin(keys[k])

Deleted(k) == access_keys[k].live /\ ~access_keys'[k].live

\* C39: revoke_access_key deletes neither the caller's own key nor a key of
\* another domain, so a domain that has an admin key still has one after
\* every revoke call, two admin keys of one domain revoking each other
\* concurrently included.
C39_AdminKeyRemains ==
    [][ /\ \A c \in 1..NumCallers : \A k \in DOMAIN access_keys :
              (pc[c] = "delete" /\ pc'[c] = "reply" /\ Deleted(k)) =>
                  /\ k # racer[c].auth_context.key
                  /\ access_keys[k].domain_id = racer[c].auth_context.domain_id
        /\ \A d \in AdminDomains :
              HasAdminKey(access_keys, d) => HasAdminKey(access_keys', d)
      ]_vars

\* C40: a report fetched at time t is served from the cache, with no
\* outbound call, to every request at a time before t + 300 s; a request at
\* or after t + 300 s makes a new fetch; a failed fetch neither creates nor
\* overwrites a cache entry, and an entry is written by a successful fetch
\* only, stamped with the time of its request.
C40_ReportCache ==
    [][ report' # report =>
          LET api_type == report'.api_type
              now == report'.current_time
              entry == report_cache[api_type]
          IN  /\ (entry # NoEntry /\ now < entry.timestamp + 300) =>
                    /\ ~report'.outbound
                    /\ report'.code = 200
                    /\ report'.body = entry.data
                    /\ report_cache' = report_cache
              /\ (entry # NoEntry /\ now >= entry.timestamp + 300) =>
                    report'.outbound
              /\ (report'.outbound /\ report'.body = "error") =>
                    report_cache' = report_cache
              /\ report_cache' # report_cache =>
                    /\ report'.outbound
                    /\ report_cache' =
                          [report_cache EXCEPT ![api_type] =
                              [timestamp |-> now, data |-> report'.body]]
      ]_vars

C40_Witness ==
    /\ report.api_type = "news"
    /\ ~report.outbound
    /\ report.code = 200
    /\ report_cache["news"].timestamp = 1
    /\ report.current_time = 300
    /\ report.body = report_cache["news"].data
    /\ report_cache["trivia"] # NoEntry

====
